---- MODULE Spec2Model ----
(***************************************************************************)
(* DevScribe backend: the file sampler getKeySourceFiles of lib/github.ts  *)
(* and the classifier analyzeCodebase of services/code-analyzer.ts.        *)
(*                                                                         *)
(* A repository path is the record [dirs, file]: dirs is the sequence of   *)
(* its directory segments and file is its file name split at every ".",    *)
(* so "src/types/index.d.ts" is                                            *)
(*   [dirs |-> <<"src","types">>, file |-> <<"index","d","ts">>]           *)
(* and ".env.example" is [dirs |-> <<>>, file |-> <<"","env","example">>]. *)
(* The regular expressions of the source are predicates on that record.    *)
(*                                                                         *)
(* A text is a sequence of one-character strings; NL is the newline.       *)
(* The texts the classifier reads are sequences of chunks: a chunk is a    *)
(* word, a punctuation mark, a quoted string, a blank or NL.               *)
(***************************************************************************)
EXTENDS Integers, Sequences, FiniteSets, TLC

VARIABLES fileTree, maxFiles, maxLinesPerFile, host,
          pc, categorizedFiles, walk, selectedFiles, categoryCounts,
          i, pending, results, codeFiles, fetchLog,
          packageJson, parsedPackageJson, languages, sourceFiles,
          apc, codeAnalysis, enhancedDependencies, DEPENDENCY_DESCRIPTIONS, history

\* the state of the classifier and of its caller
analyzerVars == <<packageJson, parsedPackageJson, languages, sourceFiles,
                  apc, codeAnalysis, enhancedDependencies, DEPENDENCY_DESCRIPTIONS, history>>

\* the state of a call of getKeySourceFiles, fileTree excepted
samplerVars == <<maxFiles, maxLinesPerFile, host,
                 pc, categorizedFiles, walk, selectedFiles, categoryCounts,
                 i, pending, results, codeFiles, fetchLog>>

vars == <<fileTree, maxFiles, maxLinesPerFile, host,
          pc, categorizedFiles, walk, selectedFiles, categoryCounts,
          i, pending, results, codeFiles, fetchLog,
          packageJson, parsedPackageJson, languages, sourceFiles,
          apc, codeAnalysis, enhancedDependencies, DEPENDENCY_DESCRIPTIONS, history>>

(***************************************************************************)
(* Bounds of the exploration.                                              *)
(***************************************************************************)
MaxTreeLen == 3
MaxFilesSmall == 3
MaxTextLen == 3
MaxBudget == 2
MaxLines == 2
MaxDeps == 3
MaxMarkers == 2
MaxCalls == 3

(***************************************************************************)
(* Sequence helpers.                                                       *)
(***************************************************************************)
Last(s) == s[Len(s)]

Range(s) == {s[k] : k \in 1..Len(s)}

IsPrefix(pre, s) == Len(pre) <= Len(s) /\ SubSeq(s, 1, Len(pre)) = pre

Drop(s, n) == SubSeq(s, n + 1, Len(s))

Min(a, b) == IF a <= b THEN a ELSE b

P(dirs, file) == [dirs |-> dirs, file |-> file]

(***************************************************************************)
(* Regular-expression fragments.                                           *)
(***************************************************************************)
\* "\.(e1|e2|...)$": the path ends with a dot followed by one of exts.
EndsWithExt(p, exts) == Len(p.file) >= 2 /\ Last(p.file) \in exts

\* "^(src\/)?": the directory sequences left after the optional prefix.
SrcOptional(dirs) ==
  {dirs} \cup (IF dirs # <<>> /\ dirs[1] = "src" THEN {Drop(dirs, 1)} ELSE {})

\* "^(src\/)?(n1|n2|...)\.(e1|e2|...)$"
TopLevelFile(p, names, exts) ==
  /\ <<>> \in SrcOptional(p.dirs)
  /\ Len(p.file) = 2
  /\ p.file[1] \in names
  /\ p.file[2] \in exts

\* "^name$" for a file of the repository root
RootFile(p, file) == p.dirs = <<>> /\ p.file = file

\* "^(src\/)?(d1|d2|...)\/.+\.(e1|e2|...)$": under one of the directory
\* prefixes, with at least one character between the "/" and the extension.
UnderDir(p, prefixes, exts) ==
  /\ EndsWithExt(p, exts)
  /\ \E d \in SrcOptional(p.dirs) : \E pre \in prefixes :
       /\ IsPrefix(pre, d)
       /\ \/ Len(d) > Len(pre)
          \/ Len(p.file) > 2
          \/ p.file[1] # ""

(***************************************************************************)
(* The pattern tables.                                                     *)
(***************************************************************************)
JsExts == {"ts", "js", "tsx", "jsx"}

ENTRY_POINT_PATTERNS(p) ==
  \/ TopLevelFile(p, {"index", "main", "app", "server"}, JsExts)
  \/ TopLevelFile(p, {"App"}, JsExts)

CONFIG_PATTERNS(p) ==
  \/ RootFile(p, <<"tsconfig", "json">>)
  \/ \E e \in {"ts", "js"} : RootFile(p, <<"vite", "config", e>>)
  \/ \E e \in {"ts", "js", "mjs"} : RootFile(p, <<"next", "config", e>>)
  \/ \E e \in {"ts", "js"} : RootFile(p, <<"webpack", "config", e>>)
  \/ \E e \in {"ts", "js"} : RootFile(p, <<"tailwind", "config", e>>)
  \/ RootFile(p, <<"", "env", "example">>)

ROUTE_PATTERNS(p) ==
  \/ UnderDir(p, {<<"routes">>, <<"api">>, <<"pages", "api">>}, JsExts)
  \/ UnderDir(p, {<<"controller">>, <<"controllers">>}, {"ts", "js"})

COMPONENT_PATTERNS(p) ==
  \/ UnderDir(p, {<<"component">>, <<"components">>}, {"tsx", "jsx"})
  \/ UnderDir(p, {<<"page">>, <<"pages">>}, {"tsx", "jsx"})

TYPE_PATTERNS(p) ==
  \/ UnderDir(p, {<<"type">>, <<"types">>}, {"ts"})
  \/ UnderDir(p, {<<"interface">>, <<"interfaces">>}, {"ts"})

SERVICE_PATTERNS(p) ==
  UnderDir(p, {<<"service">>, <<"services">>, <<"lib">>, <<"util">>, <<"utils">>},
           {"ts", "js"})

(***************************************************************************)
(* SKIP_PATTERNS are unanchored: they look for a substring anywhere in the *)
(* path.  A substring without "/" lies inside one directory segment or     *)
(* inside the file name; the sets below list the segments and file-name    *)
(* parts of the path vocabulary that contain it.                           *)
(***************************************************************************)
SegsWithNodeModules == {"node_modules"}
SegsWithDotGit == {".git", ".github"}
PartsStartingGit == {"git", "gitignore", "github"}
SegsEndingDist == {"dist"}
SegsEndingBuild == {"build"}
SegsEndingDotNext == {".next"}
SegsEndingCoverage == {"coverage"}
PartsEndingLock == {"lock", "package-lock"}
ImageExts == {"png", "jpg", "jpeg", "gif", "svg", "ico", "webp", "PNG", "SVG"}
FontExts == {"woff", "woff2", "ttf", "eot"}
MediaExts == {"mp3", "mp4", "wav", "avi"}

SKIP_PATTERNS(p) ==
  LET f == p.file
      n == Len(f)
  IN \/ \E k \in 1..Len(p.dirs) : p.dirs[k] \in SegsWithNodeModules   \* /node_modules/
     \/ \E k \in 1..n : f[k] \in SegsWithNodeModules
     \/ \E k \in 1..Len(p.dirs) : p.dirs[k] \in SegsWithDotGit        \* /\.git/
     \/ \E k \in 2..n : f[k] \in PartsStartingGit
     \/ \E k \in 1..Len(p.dirs) : p.dirs[k] \in SegsEndingDist        \* /dist\//
     \/ \E k \in 1..Len(p.dirs) : p.dirs[k] \in SegsEndingBuild       \* /build\//
     \/ \E k \in 1..Len(p.dirs) : p.dirs[k] \in SegsEndingDotNext     \* /\.next\//
     \/ \E k \in 1..Len(p.dirs) : p.dirs[k] \in SegsEndingCoverage    \* /coverage\//
     \/ EndsWithExt(p, {"lock"})                                      \* /\.lock$/
     \/ (n >= 2 /\ f[n] = "json" /\ f[n-1] \in PartsEndingLock)       \* /lock\.json$/
     \/ (n >= 3 /\ f[n] \in {"js", "css"} /\ f[n-1] = "min")          \* /\.min\.(js|css)$/
     \/ EndsWithExt(p, {"map"})                                       \* /\.map$/
     \/ (n >= 3 /\ f[n] = "ts" /\ f[n-1] = "d")                       \* /\.d\.ts$/
     \/ EndsWithExt(p, ImageExts)
     \/ EndsWithExt(p, FontExts)
     \/ EndsWithExt(p, MediaExts)

shouldSkipFile(p) == SKIP_PATTERNS(p)

SourceExts == {"ts", "tsx", "js", "jsx", "py", "go", "rs", "java", "rb", "php"}

\* faulty variant: any extension counts as source-like
HasAnyExtension(p) == Len(p.file) >= 2

\* the second filter of getKeySourceFiles
HasSourceExtension(p) == EndsWithExt(p, SourceExts)

(***************************************************************************)
(* categorizeFile                                                          *)
(***************************************************************************)
Categories == {"entry", "config", "types", "routes", "services", "components", "other"}

\* faulty variant: the components rule is tried before the routes rule
categorizeFileComponentsFirst(p) ==
  IF ENTRY_POINT_PATTERNS(p) THEN [category |-> "entry", priority |-> 1]
  ELSE IF CONFIG_PATTERNS(p) THEN [category |-> "config", priority |-> 2]
  ELSE IF TYPE_PATTERNS(p) THEN [category |-> "types", priority |-> 3]
  ELSE IF COMPONENT_PATTERNS(p) THEN [category |-> "components", priority |-> 6]
  ELSE IF ROUTE_PATTERNS(p) THEN [category |-> "routes", priority |-> 4]
  ELSE IF SERVICE_PATTERNS(p) THEN [category |-> "services", priority |-> 5]
  ELSE [category |-> "other", priority |-> 10]

categorizeFile(p) ==
  IF ENTRY_POINT_PATTERNS(p) THEN [category |-> "entry", priority |-> 1]
  ELSE IF CONFIG_PATTERNS(p) THEN [category |-> "config", priority |-> 2]
  ELSE IF TYPE_PATTERNS(p) THEN [category |-> "types", priority |-> 3]
  ELSE IF ROUTE_PATTERNS(p) THEN [category |-> "routes", priority |-> 4]
  ELSE IF SERVICE_PATTERNS(p) THEN [category |-> "services", priority |-> 5]
  ELSE IF COMPONENT_PATTERNS(p) THEN [category |-> "components", priority |-> 6]
  ELSE [category |-> "other", priority |-> 10]

Priorities == <<1, 2, 3, 4, 5, 6, 10>>

\* Array.prototype.sort((a, b) => a.priority - b.priority): stable, so the
\* result is the entries of priority 1 in their order, then those of 2, ...
RECURSIVE SortFrom(_, _)
SortFrom(s, k) ==
  IF k > Len(Priorities) THEN <<>>
  ELSE LET Is(e) == e.priority = Priorities[k]
       IN SelectSeq(s, Is) \o SortFrom(s, k + 1)

Reverse(s) == [k \in 1..Len(s) |-> s[Len(s) + 1 - k]]

\* faulty variant: a sort that does not keep the order of equal priorities
SortByPriorityUnstable(s) == SortFrom(Reverse(s), 1)

\* faulty variant: no sort at all
SortByPriorityOmitted(s) == s

SortByPriority(s) == SortFrom(s, 1)

\* faulty variant: the noise filter of line 418 is missing
CategorizeUnfiltered(tree) ==
  LET Keep(p) == HasSourceExtension(p)
      kept == SelectSeq(tree, Keep)
      mapped == [k \in 1..Len(kept) |->
                   [path |-> kept[k],
                    category |-> categorizeFile(kept[k]).category,
                    priority |-> categorizeFile(kept[k]).priority]]
  IN SortByPriority(mapped)

\* lines 417-424: filter, filter, map, sort
Categorize(tree) ==
  LET Keep(p) == ~shouldSkipFile(p) /\ HasSourceExtension(p)
      kept == SelectSeq(tree, Keep)
      mapped == [k \in 1..Len(kept) |->
                   [path |-> kept[k],
                    category |-> categorizeFile(kept[k]).category,
                    priority |-> categorizeFile(kept[k]).priority]]
  IN SortByPriority(mapped)

categoryLimits ==
  [entry |-> 3, config |-> 3, types |-> 2, routes |-> 4,
   services |-> 4, components |-> 4, other |-> 2]

\* categoryLimits[file.category] || 2
LimitOf(c) == IF c \in DOMAIN categoryLimits THEN categoryLimits[c] ELSE 2

\* categoryCounts[file.category] || 0
CountOf(counts, c) == IF c \in DOMAIN counts THEN counts[c] ELSE 0

\* faulty variant: off by one in the test of line 445
AdmitsOneMore(count, limit) == count <= limit

\* the test of line 445
Admits(count, limit) == count < limit

\* faulty variant: the walk breaks one file after the cap of line 440
CapReachedLate(selected, max) == Len(selected) > max

\* the test of line 440
CapReached(selected, max) == Len(selected) >= max

(***************************************************************************)
(* Texts.  content.split('\n') and lines.join('\n').                       *)
(***************************************************************************)
NL == "\n"

Chars == {"a", NL}

TextsUpTo(n) == UNION {[1..k -> Chars] : k \in 0..n}

RECURSIVE FirstNL(_, _)
\* index of the first newline of t at or after k, 0 when there is none
FirstNL(t, k) ==
  IF k > Len(t) THEN 0
  ELSE IF t[k] = NL THEN k
  ELSE FirstNL(t, k + 1)

RECURSIVE Split(_)
Split(t) ==
  LET k == FirstNL(t, 1)
  IN IF k = 0 THEN <<t>>
     ELSE <<SubSeq(t, 1, k - 1)>> \o Split(Drop(t, k))

RECURSIVE Join(_)
Join(ls) ==
  IF Len(ls) = 0 THEN <<>>
  ELSE IF Len(ls) = 1 THEN ls[1]
  ELSE ls[1] \o <<NL>> \o Join(Drop(ls, 1))

\* lines.slice(0, n)
Slice(s, from, to) == SubSeq(s, from + 1, Min(to, Len(s)))

\* `// ... truncated (${k} more lines)`: one newline-free chunk of text
Marker(k) == "// ... truncated (" \o ToString(k) \o " more lines)"

(***************************************************************************)
(* getFileContent: what octokit.repos.getContent answers for a path is     *)
(* [kind |-> "data", content |-> text] (a file; content is the decoded     *)
(* text, empty exactly when the base64 payload is empty),                  *)
(* [kind |-> "nocontent"] (a directory listing or an entry without         *)
(* content) or [kind |-> "throw"] (404 or any other request error).        *)
(* The result is a text or null.                                           *)
(***************************************************************************)
Null == [isNull |-> TRUE]

Some(t) == [text |-> t]

getFileContent(answer) ==
  IF answer.kind = "data" /\ answer.content # <<>>
  THEN Some(answer.content)
  ELSE Null

langMap ==
  [ts |-> "typescript", tsx |-> "tsx", js |-> "javascript", jsx |-> "jsx",
   py |-> "python", rb |-> "ruby", go |-> "go", rs |-> "rust", java |-> "java",
   php |-> "php"]

\* the file name of an eligible path has no "/" after its last ".", so
\* filePath.split('.').pop() is the last part of the file name
getLanguageFromPath(p) ==
  LET ext == Last(p.file)
  IN IF ext \in DOMAIN langMap THEN langMap[ext] ELSE ext

\* faulty variant: a file of exactly max lines is truncated too
TruncatedContentAtBudget(content, lines, max) ==
  IF Len(lines) >= max
  THEN Join(Slice(lines, 0, max)) \o <<NL, NL, Marker(Len(lines) - max)>>
  ELSE content

\* faulty variant: one line too many is kept
TruncatedContentOneMore(content, lines, max) ==
  IF Len(lines) > max
  THEN Join(Slice(lines, 0, max + 1)) \o <<NL, NL, Marker(Len(lines) - max)>>
  ELSE content

\* lines 466-471
TruncatedContent(content, lines, max) ==
  IF Len(lines) > max
  THEN Join(Slice(lines, 0, max)) \o <<NL, NL, Marker(Len(lines) - max)>>
  ELSE content

\* the async callback of lines 458-482 for one path, given the value
\* getFileContent resolved to: a CodeFile or null
FetchResult(p, got, max) ==
  IF got = Null \/ got.text = <<>> THEN Null
  ELSE LET lines == Split(got.text)
       IN [path |-> p,
           language |-> getLanguageFromPath(p),
           content |-> TruncatedContent(got.text, lines, max),
           lineCount |-> Len(lines)]

batchSize == 5

\* faulty variant: the batch is not awaited
NotAwaited(pend) == TRUE

\* Promise.all resolves once every promise of the batch has resolved
AllSettled(pend) == pend = {}

\* faulty variant: the values of a batch are taken last fetch first
BatchResultsReversed(res, from, to) ==
  [k \in 1..(to - from + 1) |->
     IF to - k + 1 \in DOMAIN res THEN res[to - k + 1] ELSE Null]

\* results.filter(f => f !== null), in batch order; res holds the value of
\* every callback that has returned, by position in selectedFiles
\* the values of the callbacks of positions from..to, null where none returned
BatchResults(res, from, to) ==
  [k \in 1..(to - from + 1) |->
     IF from + k - 1 \in DOMAIN res THEN res[from + k - 1] ELSE Null]

\* faulty variant: one failed fetch discards its whole batch
NonNullOrNothing(res, from, to) ==
  LET batch == BatchResults(res, from, to)
  IN IF \E k \in 1..Len(batch) : batch[k] = Null THEN <<>> ELSE batch

NonNull(res, from, to) ==
  LET IsFile(f) == f # Null
  IN SelectSeq(BatchResults(res, from, to), IsFile)


(***************************************************************************)
(* The inputs of the exploration: file trees (duplicate-free, as           *)
(* git.getTree lists every path once), the two budgets and the answers of  *)
(* the code host for the paths of the tree.                                *)
(***************************************************************************)
DefaultMaxFiles == 20

DefaultMaxLines == 300

EntryPaths ==
  <<P(<<"src">>, <<"index", "ts">>), P(<<>>, <<"server", "js">>),
    P(<<"src">>, <<"App", "tsx">>), P(<<"src">>, <<"main", "tsx">>)>>

ConfigPaths ==
  <<P(<<>>, <<"vite", "config", "ts">>), P(<<>>, <<"next", "config", "js">>),
    P(<<>>, <<"webpack", "config", "js">>), P(<<>>, <<"tailwind", "config", "ts">>),
    P(<<>>, <<"tailwind", "config", "js">>)>>

TypePaths ==
  <<P(<<"src", "types">>, <<"index", "ts">>), P(<<"types">>, <<"api", "ts">>),
    P(<<"src", "interfaces">>, <<"repo", "ts">>)>>

RoutePaths ==
  <<P(<<"src", "routes">>, <<"readme", "ts">>), P(<<"pages", "api">>, <<"users", "tsx">>),
    P(<<"src", "api">>, <<"users", "ts">>), P(<<"src", "controllers">>, <<"auth", "ts">>),
    P(<<"api">>, <<"health", "js">>), P(<<"routes", "v1">>, <<"items", "ts">>)>>

ServicePaths ==
  <<P(<<"src", "services">>, <<"openrouter", "ts">>), P(<<"src", "lib">>, <<"github", "ts">>),
    P(<<"src", "utils">>, <<"format", "ts">>), P(<<"lib">>, <<"db", "js">>),
    P(<<"services">>, <<"mail", "ts">>)>>

ComponentPaths ==
  <<P(<<"src", "components">>, <<"Button", "tsx">>),
    P(<<"src", "components", "layout">>, <<"Sidebar", "tsx">>),
    P(<<"src", "pages">>, <<"Home", "tsx">>), P(<<"components">>, <<"Nav", "jsx">>)>>

OtherPaths ==
  <<P(<<"scripts">>, <<"run", "py">>), P(<<"src", "views">>, <<"DashboardView", "tsx">>),
    P(<<"cmd">>, <<"main", "go">>), P(<<"routes">>, <<"", "ts">>)>>

\* paths a noise pattern matches; several would otherwise fall in a category
NoisePaths ==
  <<P(<<"src", "types">>, <<"index", "d", "ts">>), P(<<"node_modules", "react">>, <<"index", "js">>),
    P(<<"src", "routes", "build">>, <<"gen", "ts">>), P(<<"src", "api">>, <<"client", "min", "js">>),
    P(<<".github", "scripts">>, <<"ci", "js">>), P(<<"dist">>, <<"index", "js">>),
    P(<<>>, <<"package-lock", "json">>), P(<<"public">>, <<"logo", "PNG">>),
    P(<<"src", "lib">>, <<"", "gitkeep", "ts">>)>>

\* paths without a source-like extension
NonSourcePaths ==
  <<P(<<>>, <<"README", "md">>), P(<<>>, <<"tsconfig", "json">>),
    P(<<>>, <<"", "env", "example">>), P(<<>>, <<"Makefile">>)>>

\* Scenario F of the specification: 4 entry, 5 config, 3 types, 6 routes,
\* 5 services and 4 components candidates, listed least important first and
\* mixed with noise
ScenarioFTree ==
  NoisePaths \o ComponentPaths \o ServicePaths \o NonSourcePaths \o RoutePaths
    \o TypePaths \o ConfigPaths \o EntryPaths

\* the same candidates and two of category other, most important first
ScenarioGTree ==
  EntryPaths \o ConfigPaths \o TypePaths \o RoutePaths \o ServicePaths
    \o SubSeq(OtherPaths, 1, 3) \o ComponentPaths

\* the paths the short trees are built from
SmallPaths ==
  {EntryPaths[1], TypePaths[1], TypePaths[2], TypePaths[3], RoutePaths[2],
   OtherPaths[1], NoisePaths[1], NonSourcePaths[1]}

\* duplicate-free sequences over S of length at most n
DistinctSeqs(S, n) ==
  UNION {{s \in [1..k -> S] : \A a, b \in 1..k : a # b => s[a] # s[b]} : k \in 0..n}

Data(t) == [kind |-> "data", content |-> t]

NoContent == [kind |-> "nocontent"]

Throw == [kind |-> "throw"]

Answers == {NoContent, Throw} \cup {Data(t) : t \in TextsUpTo(MaxTextLen)}

LongText == <<"a", NL, "a", NL, "a">>

CoarseAnswers == {Throw, NoContent, Data(LongText)}

\* a host on which every file exists and holds one line
PlainHost(tree) == [p \in Range(tree) |-> Data(<<"a">>)]

\* a host on which the k-th, k+m-th, ... path of the tree cannot be fetched
FlakyHost(tree, k, m) ==
  [p \in Range(tree) |->
     IF \E n \in 1..Len(tree) : tree[n] = p /\ n % m = k THEN Throw ELSE Data(LongText)]

Input(tree, mf, ml, h) == [tree |-> tree, maxFiles |-> mf, maxLines |-> ml, host |-> h]

\* short trees in every order, every small file cap
SelectionInputs ==
  {Input(t, mf, DefaultMaxLines, PlainHost(t)) :
     t \in DistinctSeqs(SmallPaths, MaxTreeLen), mf \in 0..MaxFilesSmall}

SingleBatchTree == <<EntryPaths[1], OtherPaths[1]>>

\* one batch of two fetches, every answer and every small line budget
TruncationInputs ==
  {Input(SingleBatchTree, DefaultMaxFiles, ml, h) :
     ml \in 1..MaxBudget, h \in [Range(SingleBatchTree) -> Answers]}

TwoBatchTree ==
  <<EntryPaths[1], ServicePaths[1], ServicePaths[2], ComponentPaths[1],
    RoutePaths[1], OtherPaths[1]>>

\* two batches (5 + 1), every combination of coarse answers
FailureInputs ==
  {Input(TwoBatchTree, DefaultMaxFiles, 1, h) :
     h \in [Range(TwoBatchTree) -> CoarseAnswers]}

ScenarioInputs ==
  {Input(t, DefaultMaxFiles, DefaultMaxLines, h) :
     t \in {ScenarioFTree, ScenarioGTree},
     h \in {PlainHost(ScenarioFTree \o OtherPaths), FlakyHost(ScenarioFTree \o OtherPaths, 1, 3)}}

Inputs == SelectionInputs \cup TruncationInputs \cup FailureInputs \cup ScenarioInputs

\* the paths of TwoBatchTree whose answer varies in TerminationInputs: two of
\* the first batch and the one of the second
VaryingPaths == {EntryPaths[1], ServicePaths[1], OtherPaths[1]}

\* 0 to 5 selected paths (no batch, a short batch, a full batch) that all hold
\* text; 6 selected paths (5 + 1) with every combination of coarse answers
\* on the varying paths; 20 selected paths (4 full batches) with failures
TerminationInputs ==
  {Input(SubSeq(TwoBatchTree, 1, n), DefaultMaxFiles, 1,
         [p \in Range(TwoBatchTree) |-> Data(LongText)]) : n \in 0..(Len(TwoBatchTree) - 1)}
  \cup {Input(TwoBatchTree, DefaultMaxFiles, 1,
               [p \in Range(TwoBatchTree) |->
                  IF p \in VaryingPaths THEN h[p] ELSE Data(LongText)]) :
           h \in [VaryingPaths -> CoarseAnswers]}
  \cup {Input(ScenarioFTree, DefaultMaxFiles, DefaultMaxLines,
               FlakyHost(ScenarioFTree \o OtherPaths, 1, 3))}

(***************************************************************************)
(* The classifier of services/code-analyzer.ts.                            *)
(*                                                                         *)
(* undefined is Undefined.  A package name is the record [at, segs]: at    *)
(* tells whether it starts with "@" and segs is the rest split at "/", so  *)
(* "@nestjs/core" is [at |-> TRUE, segs |-> <<"nestjs", "core">>].  An     *)
(* object of dependencies is the sequence of its [name, version] entries   *)
(* in key order.  A manifest object is a record that has some of the       *)
(* fields name, main, dependencies, devDependencies.                       *)
(***************************************************************************)
Undefined == [undefined |-> TRUE]

\* undefined where a list is expected
UndefinedList == <<Undefined>>

IsList(l) == l = <<>> \/ l[1] # Undefined

Pkg(s) == [at |-> FALSE, segs |-> <<s>>]

Scoped(scope, s) == [at |-> TRUE, segs |-> <<scope, s>>]

Dep(n, v) == [name |-> n, version |-> v]

\* obj?.field || fallback, for a field whose values are all truthy
FieldOr(obj, field, fallback) ==
  IF obj # Undefined /\ field \in DOMAIN obj THEN obj[field] ELSE fallback

Keys(entries) == [k \in 1..Len(entries) |-> entries[k].name]

\* Object.keys({...a, ...b}): the keys of a in their order, then the keys of
\* b that a lacks
SpreadKeys(a, b) ==
  LET New(n) == n \notin Range(Keys(a))
  IN Keys(a) \o SelectSeq(Keys(b), New)

\* lines 106-111, 205-208, 280-286
DepNames(manifest) ==
  SpreadKeys(FieldOr(manifest, "dependencies", <<>>),
             FieldOr(manifest, "devDependencies", <<>>))

\* depNames.includes(name)
Includes(names, n) == n \in Range(names)

\* languages?.L || 0
Bytes(langs, l) == IF langs # Undefined /\ l \in DOMAIN langs THEN langs[l] ELSE 0

(***************************************************************************)
(* The unanchored marker patterns of detectArchitecture look for a         *)
(* substring anywhere in a path: "a\.b" lies in the file name, or in a     *)
(* directory segment, where a part ending with a is followed by a part     *)
(* starting with b.  The sets below list the parts of the explored paths   *)
(* that end or start so.                                                   *)
(***************************************************************************)
PartsContainingPipfile == {"Pipfile"}
PartsEndingRequirements == {"requirements", "dev-requirements"}
PartsStartingTxt == {"txt"}
PartsEndingPyproject == {"pyproject"}
PartsStartingToml == {"toml"}
PartsEndingManage == {"manage"}
PartsEndingApp == {"app"}
PartsEndingMain == {"main"}
PartsStartingPy == {"py", "pyc"}
PartsEndingCargo == {"Cargo"}
SegsEndingApi == {"api"}

\* the directory segments and the file name of a path, each split at "."
\* (the explored directory segments hold no ".")
PartsOfPath(p) == [k \in 1..Len(p.dirs) |-> <<p.dirs[k]>>] \o <<p.file>>

\* "a\.b" somewhere in the path
HasDotted(p, enders, starters) ==
  \E n \in 1..(Len(p.dirs) + 1) :
    \A parts \in {PartsOfPath(p)[n]} :
      \E k \in 1..(Len(parts) - 1) : parts[k] \in enders /\ parts[k + 1] \in starters

HasPart(p, S) ==
  \E n \in 1..(Len(p.dirs) + 1) : \E k \in DOMAIN PartsOfPath(p)[n] : PartsOfPath(p)[n][k] \in S

\* /requirements\.txt|Pipfile|pyproject\.toml/
PythonManifestPattern(p) ==
  \/ HasDotted(p, PartsEndingRequirements, PartsStartingTxt)
  \/ HasPart(p, PartsContainingPipfile)
  \/ HasDotted(p, PartsEndingPyproject, PartsStartingToml)

\* /manage\.py/
ManagePyPattern(p) == HasDotted(p, PartsEndingManage, PartsStartingPy)

\* /app\.py/
AppPyPattern(p) == HasDotted(p, PartsEndingApp, PartsStartingPy)

\* /main\.py/
MainPyPattern(p) == HasDotted(p, PartsEndingMain, PartsStartingPy)

\* /api\//
ApiDirPattern(p) == \E k \in 1..Len(p.dirs) : p.dirs[k] \in SegsEndingApi

\* /Cargo\.toml/
CargoPattern(p) == HasDotted(p, PartsEndingCargo, PartsStartingToml)

\* /^(src\/)?index\.(ts|js)$/
LibraryIndexPattern(p) == TopLevelFile(p, {"index"}, {"ts", "js"})

\* hasFile: fileTree?.some(f => pattern.test(f)) || false
hasFile(tree, Pattern(_)) == IsList(tree) /\ \E k \in 1..Len(tree) : Pattern(tree[k])

GoThreshold == 10000

\* what a rule of the cascade yields when it does not return
NoLabel == "(no label)"

Rule(hit, label) == [hit |-> hit, label |-> label]

\* the label of the first rule that hits
RECURSIVE FirstHit(_)
FirstHit(rules) ==
  IF rules = <<>> THEN NoLabel
  ELSE IF rules[1].hit THEN rules[1].label
  ELSE FirstHit(Tail(rules))

\* lines 114-166: the tests on the dependency names, in the order of the code
ManifestRuleList(names) ==
  <<Rule(Includes(names, Pkg("next")), "Next.js Application (React SSR/SSG Framework)"),
    Rule(Includes(names, Pkg("react")) /\ Includes(names, Pkg("vite")), "React SPA with Vite"),
    Rule(Includes(names, Pkg("react")) /\ Includes(names, Pkg("react-scripts")),
         "React SPA (Create React App)"),
    Rule(Includes(names, Pkg("vue")) \/ Includes(names, Pkg("nuxt")),
         IF Includes(names, Pkg("nuxt")) THEN "Nuxt.js Application (Vue SSR)"
         ELSE "Vue.js Application"),
    Rule(Includes(names, Scoped("angular", "core")), "Angular Application"),
    Rule(Includes(names, Pkg("svelte")) \/ Includes(names, Scoped("sveltejs", "kit")),
         IF Includes(names, Scoped("sveltejs", "kit")) THEN "SvelteKit Application"
         ELSE "Svelte Application"),
    Rule(Includes(names, Pkg("express")), "Express.js REST API"),
    Rule(Includes(names, Pkg("fastify")), "Fastify REST API"),
    Rule(Includes(names, Scoped("nestjs", "core")), "NestJS Application"),
    Rule(Includes(names, Pkg("electron")), "Electron Desktop Application"),
    Rule(Includes(names, Pkg("react-native")), "React Native Mobile Application"),
    Rule(\/ Includes(names, Pkg("commander"))
         \/ Includes(names, Pkg("yargs"))
         \/ Includes(names, Pkg("inquirer")), "Node.js CLI Tool")>>

\* faulty variant: the library-plus-bundler test runs before the test of the
\* framework built on them
ManifestRuleBundlerFirst(names) ==
  FirstHit(<<ManifestRuleList(names)[2], ManifestRuleList(names)[1]>>
           \o SubSeq(ManifestRuleList(names), 3, Len(ManifestRuleList(names))))

ManifestRule(names) == FirstHit(ManifestRuleList(names))

\* faulty variant: any manifest object counts, with or without main
LibraryRuleAnyManifest(manifest, tree) ==
  IF hasFile(tree, LibraryIndexPattern) /\ manifest # Undefined
  THEN "JavaScript/TypeScript Library"
  ELSE NoLabel

\* lines 169-171; packageJson?.main is truthy for a non-empty string
LibraryRule(manifest, tree) ==
  IF hasFile(tree, LibraryIndexPattern) /\ FieldOr(manifest, "main", "") # ""
  THEN "JavaScript/TypeScript Library"
  ELSE NoLabel

\* lines 174-181

PythonRule(names, langs, tree) ==
  IF /\ Bytes(langs, "Python") > 0
     /\ Bytes(langs, "Python") > Bytes(langs, "TypeScript") + Bytes(langs, "JavaScript")
     /\ hasFile(tree, PythonManifestPattern)
  THEN IF hasFile(tree, ManagePyPattern) THEN "Django Application"
       ELSE IF hasFile(tree, AppPyPattern) \/ Includes(names, Pkg("flask"))
       THEN "Flask Application"
       ELSE IF hasFile(tree, MainPyPattern) /\ hasFile(tree, ApiDirPattern)
       THEN "FastAPI Application"
       ELSE "Python Application"
  ELSE NoLabel

\* lines 184-186
GoRule(langs) == IF Bytes(langs, "Go") > GoThreshold THEN "Go Application" ELSE NoLabel

\* lines 189-191
RustRule(langs, tree) ==
  IF Bytes(langs, "Rust") > 0 \/ hasFile(tree, CargoPattern) THEN "Rust Application"
  ELSE NoLabel

\* faulty variant: a repository without TypeScript counts as JavaScript
FallbackJavaScript(names, langs) ==
  IF Includes(names, Pkg("react")) THEN "React Application"
  ELSE IF Bytes(langs, "TypeScript") > 0 THEN "TypeScript Project"
  ELSE "JavaScript Project"

\* lines 194-198
Fallback(names, langs) ==
  IF Includes(names, Pkg("react")) THEN "React Application"
  ELSE IF Bytes(langs, "TypeScript") > 0 THEN "TypeScript Project"
  ELSE IF Bytes(langs, "JavaScript") > 0 THEN "JavaScript Project"
  ELSE "Software Project"

detectArchitecture(manifest, langs, tree) ==
  LET names == DepNames(manifest)
  IN FirstHit(<<Rule(ManifestRule(names) # NoLabel, ManifestRule(names)),
                Rule(LibraryRule(manifest, tree) # NoLabel, LibraryRule(manifest, tree)),
                Rule(PythonRule(names, langs, tree) # NoLabel, PythonRule(names, langs, tree)),
                Rule(GoRule(langs) # NoLabel, GoRule(langs)),
                Rule(RustRule(langs, tree) # NoLabel, RustRule(langs, tree)),
                Rule(TRUE, Fallback(names, langs))>>)

\* stack.push(label) when the dependency is present
PushIf(stack, present, label) == IF present THEN Append(stack, label) ELSE stack

\* lines 277-306
extractTechStack(manifest) ==
  IF manifest = Undefined THEN <<>>
  ELSE
    LET names == DepNames(manifest)
        s1 == PushIf(<<>>, Includes(names, Pkg("react")), "React")
        s2 == PushIf(s1, Includes(names, Pkg("next")), "Next.js")
        s3 == PushIf(s2, Includes(names, Pkg("vue")), "Vue.js")
        s4 == PushIf(s3, Includes(names, Pkg("express")), "Express.js")
        s5 == PushIf(s4, Includes(names, Scoped("nestjs", "core")), "NestJS")
        s6 == PushIf(s5, Includes(names, Pkg("typescript")), "TypeScript")
        s7 == PushIf(s6, Includes(names, Scoped("prisma", "client")), "Prisma")
        s8 == PushIf(s7, Includes(names, Pkg("mongoose")), "MongoDB")
        s9 == PushIf(s8, Includes(names, Scoped("supabase", "supabase-js")), "Supabase")
        s10 == PushIf(s9, Includes(names, Pkg("tailwindcss")), "Tailwind CSS")
    IN PushIf(s10, Includes(names, Pkg("styled-components")), "Styled Components")

(***************************************************************************)
(* DEPENDENCY_DESCRIPTIONS, lines 10-98: a module-level object shared by   *)
(* all calls, here the function from package names to descriptions.        *)
(***************************************************************************)
DescriptionEntries ==
  {<<Pkg("react"), "UI library for building component-based interfaces">>,
   <<Pkg("next"), "React framework with SSR and file-based routing">>,
   <<Pkg("express"), "Minimal Node.js web framework for APIs">>,
   <<Pkg("fastify"), "Fast and low overhead Node.js web framework">>,
   <<Pkg("koa"), "Expressive HTTP middleware framework">>,
   <<Pkg("nestjs"), "Progressive Node.js framework with TypeScript">>,
   <<Scoped("nestjs", "core"), "Progressive Node.js framework with TypeScript">>,
   <<Pkg("vue"), "Progressive JavaScript framework for UIs">>,
   <<Pkg("angular"), "Platform for building web applications">>,
   <<Scoped("angular", "core"), "Platform for building web applications">>,
   <<Pkg("svelte"), "Compile-time JavaScript framework">>,
   <<Pkg("redux"), "Predictable state container">>,
   <<Scoped("reduxjs", "toolkit"), "Redux toolkit for efficient state management">>,
   <<Pkg("zustand"), "Small, fast state management">>,
   <<Pkg("mobx"), "Simple, scalable state management">>,
   <<Pkg("recoil"), "State management library for React">>,
   <<Pkg("jotai"), "Primitive and flexible state management">>,
   <<Pkg("axios"), "Promise-based HTTP client">>,
   <<Pkg("swr"), "React hooks for data fetching">>,
   <<Scoped("tanstack", "react-query"), "Powerful data fetching and caching">>,
   <<Pkg("apollo-client"), "GraphQL client with caching">>,
   <<Scoped("apollo", "client"), "GraphQL client with caching">>,
   <<Pkg("prisma"), "Next-generation ORM for Node.js and TypeScript">>,
   <<Scoped("prisma", "client"), "Next-generation ORM for Node.js and TypeScript">>,
   <<Pkg("mongoose"), "MongoDB object modeling for Node.js">>,
   <<Pkg("typeorm"), "ORM for TypeScript and JavaScript">>,
   <<Pkg("sequelize"), "Promise-based Node.js ORM">>,
   <<Pkg("drizzle-orm"), "TypeScript ORM with SQL-like syntax">>,
   <<Pkg("knex"), "SQL query builder for Node.js">>,
   <<Pkg("next-auth"), "Authentication for Next.js">>,
   <<Pkg("passport"), "Simple authentication middleware">>,
   <<Pkg("jsonwebtoken"), "JWT implementation for Node.js">>,
   <<Scoped("supabase", "supabase-js"), "Supabase client for auth and database">>,
   <<Pkg("firebase"), "Backend-as-a-service platform">>,
   <<Scoped("clerk", "clerk-sdk-node"), "User management and authentication">>,
   <<Pkg("tailwindcss"), "Utility-first CSS framework">>,
   <<Pkg("styled-components"), "CSS-in-JS styling library">>,
   <<Scoped("emotion", "react"), "CSS-in-JS library with React">>,
   <<Pkg("sass"), "CSS preprocessor with variables and nesting">>,
   <<Pkg("chakra-ui"), "Component library for React">>,
   <<Scoped("chakra-ui", "react"), "Component library for React">>,
   <<Scoped("mui", "material"), "Material Design component library">>,
   <<Pkg("antd"), "Ant Design React UI library">>,
   <<Pkg("radix-ui"), "Unstyled accessible components">>,
   <<Scoped("radix-ui", "react-dialog"), "Unstyled accessible components">>,
   <<Pkg("jest"), "JavaScript testing framework">>,
   <<Pkg("vitest"), "Fast Vite-native unit test framework">>,
   <<Scoped("testing-library", "react"), "React component testing utilities">>,
   <<Pkg("cypress"), "E2E testing framework">>,
   <<Pkg("playwright"), "E2E testing for modern web apps">>,
   <<Pkg("vite"), "Next-generation frontend build tool">>,
   <<Pkg("webpack"), "Module bundler for JavaScript">>,
   <<Pkg("esbuild"), "Extremely fast JavaScript bundler">>,
   <<Pkg("turbo"), "High-performance build system">>,
   <<Pkg("tsup"), "Bundle TypeScript libraries with no config">>,
   <<Pkg("lodash"), "Modern JavaScript utility library">>,
   <<Pkg("date-fns"), "Modern JavaScript date utility library">>,
   <<Pkg("dayjs"), "Fast 2kB alternative to Moment.js">>,
   <<Pkg("zod"), "TypeScript-first schema validation">>,
   <<Pkg("yup"), "Schema builder for runtime value parsing">>,
   <<Pkg("uuid"), "RFC4122 UUID generator">>,
   <<Pkg("nanoid"), "Tiny, URL-friendly unique ID generator">>,
   <<Scoped("octokit", "rest"), "GitHub REST API client">>,
   <<Pkg("openai"), "OpenAI API client library">>,
   <<Pkg("stripe"), "Payment processing API">>,
   <<Pkg("twilio"), "Cloud communications platform">>,
   <<Pkg("sendgrid"), "Email delivery service">>,
   <<Scoped("aws-sdk", "client-s3"), "AWS S3 SDK for cloud storage">>}

DescriptionTable ==
  [n \in {e[1] : e \in DescriptionEntries} |->
     (CHOOSE e \in DescriptionEntries : e[1] = n)[2]]

\* name.replace(/^@/, empty).split(/)[0]
NormalizedName(n) == Pkg(n.segs[1])

\* table[name] || table[normalizedName] || fallback; table[k] is undefined for
\* a k that is no key, and every description is a non-empty string
Describe(table, n) ==
  IF n \in DOMAIN table THEN table[n]
  ELSE IF NormalizedName(n) \in DOMAIN table THEN table[NormalizedName(n)]
  ELSE "External dependency"

\* lines 511-518: the loop over Object.entries(deps)
Annotations(table, deps) ==
  [k \in 1..Len(deps) |->
     [name |-> deps[k].name,
      version |-> deps[k].version,
      description |-> Describe(table, deps[k].name)]]

MaxAnnotations == 20

\* lines 505-521
getEnhancedDependencies(table, manifest) ==
  IF manifest = Undefined THEN <<>>
  ELSE Slice(Annotations(table, FieldOr(manifest, "dependencies", <<>>)), 0, MaxAnnotations)

(***************************************************************************)
(* Sample texts.  A content is a sequence of chunks (strings): a maximal   *)
(* run of word characters is one chunk, every blank, NL, punctuation mark  *)
(* and quote is a chunk of its own.  The regular expressions of the source *)
(* are matchers on such sequences; where an expression is unanchored on a  *)
(* side, a set lists the explored chunks that end or start as it asks.     *)
(***************************************************************************)
Blank == " "
Tab == "\t"

\* \s within a line, and \s within a content
LineSpace == {Blank, Tab}
Space == {Blank, Tab, NL}

\* the chunk that stands for the backquote character
Backquote == "(backquote)"

Quotes == {"'", "\"", Backquote}

\* no chunk: what lies before the first and after the last chunk
NoChunk == ""

At(s, k) == IF k \in 1..Len(s) THEN s[k] ELSE NoChunk

\* the first position from k on whose chunk is not in S
RECURSIVE Skip(_, _, _)
Skip(s, k, S) == IF At(s, k) \in S THEN Skip(s, k + 1, S) ELSE k

\* the first position from k on whose chunk is in S, Len(s) + 1 if none
RECURSIVE Find(_, _, _)
Find(s, k, S) == IF k > Len(s) \/ s[k] \in S THEN k ELSE Find(s, k + 1, S)

\* matchAll: of the positions K where a match starts, ends[k] being where the
\* match from k ends, those of the matches found from left to right, each
\* search resuming after the end of the match before
RECURSIVE MatchAll(_, _, _)
MatchAll(K, from, ends) ==
  LET C == {k \in K : k >= from}
  IN IF C = {} THEN <<>>
     ELSE LET first == CHOOSE k \in C : \A j \in C : k <= j
          IN <<first>> \o MatchAll(K, ends[first] + 1, ends)

\* "x\s+" read at k: the position after the white space, 0 if it does not match
ThenSpace(s, k, X, ws) ==
  IF At(s, k) \in X /\ At(s, k + 1) \in ws THEN Skip(s, k + 1, ws) ELSE 0

\* the explored word chunks
Keywords == {"export", "async", "function", "const", "class", "default", "interface",
             "type", "return", "import"}
LowerCaseNames == {"handler", "helper", "props", "x", "get", "post", "put", "patch",
                   "delete", "router", "app", "layout", "getAll", "useState", "useEffect",
                   "useCallback", "useMemo", "useContext", "createContext", "jwt", "res"}
CapitalizedNames == {"GET", "POST", "PUT", "PATCH", "DELETE", "GETTER", "App", "Home",
                     "Button", "RootLayout", "UserService", "User", "Props", "Router",
                     "Get", "React", "FC", "Bearer"}
\* [A-Z] alone
CapitalLetters == {"A", "B"}
Words == Keywords \cup LowerCaseNames \cup CapitalizedNames \cup CapitalLetters

\* chunks that end with the given word ("reexport" ends with "export")
EndingWith(w) == {w} \cup (IF w = "export" THEN {"reexport"} ELSE {})

\* the concatenation of the chunks of s
RECURSIVE Text(_)
Text(s) == IF s = <<>> THEN "" ELSE s[1] \o Text(Tail(s))

(***************************************************************************)
(* extractExports, lines 309-373.  Each matcher gives the captured groups  *)
(* of the leftmost match in the line, or NoMatch.                          *)
(***************************************************************************)
NoMatch == [matched |-> FALSE]

Match1(name) == [matched |-> TRUE, name |-> name]

\* the least position of K, 0 when K is empty
Leftmost(K) == IF K = {} THEN 0 ELSE CHOOSE k \in K : \A j \in K : k <= j

\* "export\s+" read at k
ExportAt(line, k) == ThenSpace(line, k, EndingWith("export"), LineSpace)

\* "(?:x\s+)?" read at k
Optional(line, k, x) ==
  IF ThenSpace(line, k, {x}, LineSpace) # 0 THEN ThenSpace(line, k, {x}, LineSpace) ELSE k

\* "kw\s+(\w+)" read at k: the position of the name, 0 if it does not match
NamedAt(line, k, kws) ==
  IF k # 0 /\ ThenSpace(line, k, kws, LineSpace) # 0
          /\ At(line, ThenSpace(line, k, kws, LineSpace)) \in Words
  THEN ThenSpace(line, k, kws, LineSpace)
  ELSE 0

\* the leftmost k in 1..Len(line) with At(k) # 0, as the capture At(k) names
FirstMatchOf(line, NameAt(_)) ==
  LET K == {k \in 1..Len(line) : NameAt(k) # 0}
  IN IF K = {} THEN NoMatch ELSE Match1(line[NameAt(Leftmost(K))])

\* /export\s+(?:async\s+)?function\s+(\w+)/
funcMatch(line) ==
  LET NameAt(k) ==
        IF ExportAt(line, k) = 0 THEN 0
        ELSE NamedAt(line, Optional(line, ExportAt(line, k), "async"), {"function"})
  IN FirstMatchOf(line, NameAt)

\* /export\s+const\s+(\w+)/
constMatch(line) ==
  LET NameAt(k) == NamedAt(line, ExportAt(line, k), {"const"})
  IN FirstMatchOf(line, NameAt)

\* /export\s+(?:default\s+)?class\s+(\w+)/
classMatch(line) ==
  LET NameAt(k) ==
        IF ExportAt(line, k) = 0 THEN 0
        ELSE NamedAt(line, Optional(line, ExportAt(line, k), "default"), {"class"})
  IN FirstMatchOf(line, NameAt)

\* /export\s+(interface|type)\s+(\w+)/: the name and the keyword before it
typeMatch(line) ==
  LET NameAt(k) == NamedAt(line, ExportAt(line, k), {"interface", "type"})
      K == {k \in 1..Len(line) : NameAt(k) # 0}
  IN IF K = {} THEN NoMatch
     ELSE [matched |-> TRUE,
           name |-> line[NameAt(Leftmost(K))],
           keyword |-> line[ExportAt(line, Leftmost(K))]]

\* /export\s+default\s+function\s+(\w+)/
defaultFuncMatch(line) ==
  LET NameAt(k) ==
        IF ThenSpace(line, ExportAt(line, k), {"default"}, LineSpace) = 0
           \/ ExportAt(line, k) = 0
        THEN 0
        ELSE NamedAt(line, ThenSpace(line, ExportAt(line, k), {"default"}, LineSpace),
                     {"function"})
  IN FirstMatchOf(line, NameAt)

ExportInfo(name, type, file) == [name |-> name, type |-> type, file |-> file]

\* lines 316-365: what one line adds to exports
ExportsOfLine(line, path) ==
  IF funcMatch(line).matched THEN <<ExportInfo(funcMatch(line).name, "function", path)>>
  ELSE IF constMatch(line).matched THEN <<ExportInfo(constMatch(line).name, "const", path)>>
  ELSE IF classMatch(line).matched THEN <<ExportInfo(classMatch(line).name, "class", path)>>
  ELSE IF typeMatch(line).matched
  THEN <<ExportInfo(typeMatch(line).name, typeMatch(line).keyword, path)>>
  ELSE IF defaultFuncMatch(line).matched
  THEN <<ExportInfo(defaultFuncMatch(line).name, "component", path)>>
  ELSE <<>>

\* the concatenation of a sequence of sequences
RECURSIVE Flatten(_)
Flatten(ss) == IF ss = <<>> THEN <<>> ELSE ss[1] \o Flatten(Tail(ss))

\* the two loops of lines 312-367
AllExports(files) ==
  Flatten([n \in 1..Len(files) |->
             LET lines == Split(files[n].content)
             IN Flatten([k \in 1..Len(lines) |-> ExportsOfLine(lines[k], files[n].path)])])

MaxExports == 30

\* faulty variant: the cap keeps the last entries
extractExportsLast(files) ==
  SubSeq(AllExports(files), Len(AllExports(files)) - Min(Len(AllExports(files)), MaxExports) + 1,
         Len(AllExports(files)))

extractExports(files) == Slice(AllExports(files), 0, MaxExports)

(***************************************************************************)
(* detectRoutes, lines 376-431.                                            *)
(***************************************************************************)
\* (get|post|put|patch|delete) under the flag i: the explored chunks that are
\* a verb up to case, with the verb
LowerCase ==
  [c \in {"get", "Get", "GET", "post", "POST", "put", "PUT", "patch", "PATCH",
          "delete", "DELETE"} |->
     CASE c \in {"get", "Get", "GET"} -> "get"
       [] c \in {"post", "POST"} -> "post"
       [] c \in {"put", "PUT"} -> "put"
       [] c \in {"patch", "PATCH"} -> "patch"
       [] c \in {"delete", "DELETE"} -> "delete"]

\* toUpperCase on a verb
UpperCase ==
  [c \in {"get", "post", "put", "patch", "delete"} |->
     CASE c = "get" -> "GET"
       [] c = "post" -> "POST"
       [] c = "put" -> "PUT"
       [] c = "patch" -> "PATCH"
       [] c = "delete" -> "DELETE"]

\* the explored chunks that end with "router", and with "app", up to case
RouterChunks == {"router", "Router", "userRouter"}
AppChunks == {"app", "App"}

RouteInfo(method, path, handler, file) ==
  [method |-> method, path |-> path, handler |-> handler, file |-> file]

\* /obj\.(get|post|put|patch|delete)\s*\(\s*[q]([^q]+)[q]/gi, q the three quote
\* characters, read at k: the position of the closing quote, 0 if it does
\* not match
CallEnd(s, k, obj) ==
  LET paren == Skip(s, k + 3, Space)
      open == Skip(s, paren + 1, Space)
      close == Find(s, open + 1, Quotes)
  IN IF /\ At(s, k) \in obj
        /\ At(s, k + 1) = "."
        /\ At(s, k + 2) \in DOMAIN LowerCase
        /\ At(s, paren) = "("
        /\ At(s, open) \in Quotes
        /\ close <= Len(s)
        /\ close > open + 1
     THEN close
     ELSE 0

\* the route of the match that starts at k and ends at the closing quote
CallRoute(s, k, path) ==
  LET open == Skip(s, Skip(s, k + 3, Space) + 1, Space)
      close == Find(s, open + 1, Quotes)
  IN RouteInfo(UpperCase[LowerCase[s[k + 2]]], Text(SubSeq(s, open + 1, close - 1)),
               "handler", path)

\* content.matchAll(...) and the loop over its matches
CallRoutes(s, obj, path) ==
  LET K == {k \in 1..Len(s) : CallEnd(s, k, obj) # 0}
      starts == MatchAll(K, 1, [k \in K |-> CallEnd(s, k, obj)])
  IN [n \in 1..Len(starts) |-> CallRoute(s, starts[n], path)]

\* the directory segments that end with "pages" and with "app", and the
\* segments that start with "api"
SegsEndingPages == {"pages"}
SegsEndingAppDir == {"app", "webapp"}
SegsStartingApi == {"api"}

\* file.path.includes of dir/api/
IncludesApiDir(p, enders) ==
  \E k \in 1..(Len(p.dirs) - 1) : p.dirs[k] \in enders /\ p.dirs[k + 1] = "api"

\* An API path is [dirs, file] as a repository path is, with [root] telling
\* whether it starts with "/".
\* .replace(/^.*dir\/api/, /api): all up to the last dir/api becomes /api
ReplaceThroughApi(q, enders) ==
  LET K == {k \in 1..(Len(q.dirs) - 1) :
              q.dirs[k] \in enders /\ q.dirs[k + 1] \in SegsStartingApi}
  IN IF q.dirs # <<>> /\ Last(q.dirs) \in enders /\ q.file[1] \in SegsStartingApi
     THEN [root |-> TRUE, dirs |-> <<>>, file |-> q.file]
     ELSE IF K = {} THEN q
     ELSE LET last == CHOOSE k \in K : \A j \in K : j <= k
          IN [root |-> TRUE, dirs |-> Drop(q.dirs, last), file |-> q.file]

\* .replace(/\.(ts|js|tsx|jsx)$/, empty)
StripExtension(q) ==
  IF EndsWithExt(q, JsExts)
  THEN [q EXCEPT !.file = SubSeq(q.file, 1, Len(q.file) - 1)]
  ELSE q

\* faulty variant: the last segment stays
StripLastNever(q, name) == q

\* .replace(/\/name$/, empty): the last segment goes when it is name and a /
\* precedes it
StripLast(q, name) ==
  IF q.file = <<name>> /\ (q.root \/ q.dirs # <<>>)
  THEN IF q.dirs = <<>> THEN [root |-> FALSE, dirs |-> <<>>, file |-> <<"">>]
       ELSE [q EXCEPT !.dirs = SubSeq(q.dirs, 1, Len(q.dirs) - 1),
                      !.file = <<Last(q.dirs)>>]
  ELSE q

\* the segments of s joined by sep
RECURSIVE JoinText(_, _)
JoinText(s, sep) ==
  IF s = <<>> THEN ""
  ELSE IF Len(s) = 1 THEN s[1]
  ELSE s[1] \o sep \o JoinText(Tail(s), sep)

\* the string an API path stands for
Render(q) ==
  (IF q.root THEN "/" ELSE "")
    \o JoinText(q.dirs \o <<JoinText(q.file, ".")>>, "/")

\* lines 405-410
apiPath(p) ==
  Render(StripLast(StripLast(StripExtension(
           ReplaceThroughApi(ReplaceThroughApi([root |-> FALSE, dirs |-> p.dirs, file |-> p.file],
                                               SegsEndingPages),
                             SegsEndingAppDir)), "route"), "index"))

\* the chunks that start with the name of an HTTP method, with the method
MethodNames == <<"GET", "POST", "PUT", "PATCH", "DELETE">>

StartingWith(m) == {m} \cup (IF m = "GET" THEN {"GETTER"} ELSE {})

\* content.includes of export kw m and of export async function m:
\* the words are each one blank apart
IncludesExportOf(s, kws, m) ==
  \E k \in 1..(Len(s) - 2 * Len(kws) - 2) :
    /\ s[k] \in EndingWith("export")
    /\ SubSeq(s, k + 1, k + 2 * Len(kws)) =
         Flatten([n \in 1..Len(kws) |-> <<Blank, kws[n]>>])
    /\ At(s, k + 2 * Len(kws) + 1) = Blank
    /\ At(s, k + 2 * Len(kws) + 2) \in StartingWith(m)

\* lines 413-417
ExportsMethod(s, m) ==
  \/ IncludesExportOf(s, <<"async", "function">>, m)
  \/ IncludesExportOf(s, <<"function">>, m)
  \/ IncludesExportOf(s, <<"const">>, m)

\* content.includes of export default
IncludesExportDefault(s) ==
  \E k \in 1..Len(s) :
    s[k] \in EndingWith("export") /\ At(s, k + 1) = Blank /\ At(s, k + 2) = "default"

\* lines 404-427: the routes a file has by its place in the tree
ApiDirRoutes(file) ==
  IF IncludesApiDir(file.path, SegsEndingPages) \/ IncludesApiDir(file.path, SegsEndingAppDir)
  THEN LET Exported(m) == ExportsMethod(file.content, m)
           methods == SelectSeq(MethodNames, Exported)
       IN IF Len(methods) > 0
          THEN [n \in 1..Len(methods) |->
                  RouteInfo(methods[n], apiPath(file.path), methods[n], file.path)]
          ELSE IF IncludesExportDefault(file.content)
          THEN <<RouteInfo("ALL", apiPath(file.path), "default", file.path)>>
          ELSE <<>>
  ELSE <<>>

\* lines 379-428: the routes of one file
RoutesOfFile(file) ==
  CallRoutes(file.content, RouterChunks, file.path)
    \o CallRoutes(file.content, AppChunks, file.path)
    \o ApiDirRoutes(file)

AllRoutes(files) == Flatten([n \in 1..Len(files) |-> RoutesOfFile(files[n])])

MaxRoutes == 20

detectRoutes(files) == Slice(AllRoutes(files), 0, MaxRoutes)

(***************************************************************************)
(* detectComponents, lines 434-472.                                        *)
(***************************************************************************)
\* [A-Z]\w+: a word of two characters or more that starts with a capital
ComponentNames == CapitalizedNames

\* the names that hold "layout" once in lower case
NamesWithLayout == {"RootLayout", "layout"}

\* the path segments and file-name parts that hold "layout"
PartsWithLayout == {"layout", "layouts", "(layout)"}

\* the chunks that hold "="
WithEquals == {"=", "=>", "==", "==="}

\* the chunks of one character
OneCharacter == {Blank, Tab, NL, "(", ")", "{", "}", ".", ":", "=", ";", ",", "<", ">",
                 "x", "A", "B"} \cup Quotes

\* file.path.includes of /dir/: dir is a directory segment that is not the first
IncludesDir(p, dir) == \E k \in 2..Len(p.dirs) : p.dirs[k] = dir

\* file.path.includes of layout
IncludesLayout(p) == HasPart(p, PartsWithLayout)

ComponentInfo(name, file, type) == [name |-> name, file |-> file, type |-> type]

\* /(?:export\s+)?(?:default\s+)?function\s+([A-Z]\w+)\s*\(/g read at the
\* chunk that ends with "function": the position of "(", 0 if it does not match
FunctionComponentEnd(s, k) ==
  LET name == ThenSpace(s, k, EndingWith("function"), Space)
  IN IF name # 0 /\ At(s, name) \in ComponentNames /\ At(s, Skip(s, name + 1, Space)) = "("
     THEN Skip(s, name + 1, Space)
     ELSE 0

\* lines 445-454
FunctionComponent(s, k, path) ==
  LET name == s[ThenSpace(s, k, EndingWith("function"), Space)]
      isPage == IncludesDir(path, "pages") \/ IncludesDir(path, "app")
      isLayout == name \in NamesWithLayout \/ IncludesLayout(path)
  IN ComponentInfo(name, path,
                   IF isLayout THEN "layout" ELSE IF isPage THEN "page" ELSE "functional")

FunctionComponents(s, path) ==
  LET K == {k \in 1..Len(s) : FunctionComponentEnd(s, k) # 0}
      starts == MatchAll(K, 1, [k \in K |-> FunctionComponentEnd(s, k)])
  IN [n \in 1..Len(starts) |-> FunctionComponent(s, starts[n], path)]

\* "(?::\s*(?:React\.)?FC[^=]*)?\s*=" read at k: the position of "=", 0 if
\* it does not match
AnnotationThenEquals(s, k) ==
  LET plain == Skip(s, k, Space)
      colon == Skip(s, k, Space)
      fc == LET t == Skip(s, colon + 1, Space)
            IN IF At(s, t) = "React" /\ At(s, t + 1) = "." THEN t + 2 ELSE t
      eq == Find(s, fc + 1, WithEquals)
  IN IF At(s, plain) = "=" THEN plain
     ELSE IF At(s, colon) = ":" /\ At(s, fc) = "FC" /\ At(s, eq) = "=" THEN eq
     ELSE 0

\* "\s*(?:\([^)]*\)|[^=])\s*=>" read after "=": the position of "=>", 0 if it
\* does not match
ParametersThenArrow(s, k) ==
  LET open == Skip(s, k, Space)
      close == Find(s, open + 1, {")"})
      Arrow(j) == At(s, Skip(s, j, Space)) = "=>"
  IN IF At(s, open) = "(" /\ close <= Len(s) /\ Arrow(close + 1)
     THEN Skip(s, close + 1, Space)
     ELSE IF \E j \in k..open : At(s, j) \in OneCharacter \ {"="} /\ Arrow(j + 1)
     THEN Skip(s, (CHOOSE j \in k..open :
                     /\ At(s, j) \in OneCharacter \ {"="}
                     /\ Arrow(j + 1)
                     /\ \A h \in k..open :
                          At(s, h) \in OneCharacter \ {"="} /\ Arrow(h + 1) => h <= j) + 1,
               Space)
     ELSE 0

\* /(?:export\s+)?const\s+([A-Z]\w+)\s*(?::\s*(?:React\.)?FC[^=]*)?\s*=\s*
\*  (?:\([^)]*\)|[^=])\s*=>/g read at the chunk that ends with "const"
ArrowComponentEnd(s, k) ==
  LET name == ThenSpace(s, k, EndingWith("const"), Space)
      eq == AnnotationThenEquals(s, name + 1)
  IN IF name # 0 /\ At(s, name) \in ComponentNames /\ eq # 0
     THEN ParametersThenArrow(s, eq + 1)
     ELSE 0

\* the names of the arrow components of a content, in the order of the matches
ArrowNames(s) ==
  LET K == {k \in 1..Len(s) : ArrowComponentEnd(s, k) # 0}
      starts == MatchAll(K, 1, [k \in K |-> ArrowComponentEnd(s, k)])
  IN [n \in 1..Len(starts) |-> s[ThenSpace(s, starts[n], EndingWith("const"), Space)]]

\* lines 457-467: each name is added unless the list holds it for this file
RECURSIVE ArrowComponents(_, _, _)
ArrowComponents(names, path, found) ==
  IF names = <<>> THEN found
  ELSE ArrowComponents(
         Tail(names), path,
         IF \E n \in 1..Len(found) : found[n].name = names[1] /\ found[n].file = path
         THEN found
         ELSE Append(found, ComponentInfo(names[1], path, "functional")))

\* the loop of lines 437-468
RECURSIVE ComponentsFrom(_, _)
ComponentsFrom(files, found) ==
  IF files = <<>> THEN found
  ELSE IF ~EndsWithExt(files[1].path, {"tsx", "jsx"}) THEN ComponentsFrom(Tail(files), found)
  ELSE ComponentsFrom(
         Tail(files),
         ArrowComponents(ArrowNames(files[1].content), files[1].path,
                         found \o FunctionComponents(files[1].content, files[1].path)))

AllComponents(files) == ComponentsFrom(files, <<>>)

MaxComponents == 20

detectComponents(files) == Slice(AllComponents(files), 0, MaxComponents)

(***************************************************************************)
(* findEntryPoints, lines 475-502.                                         *)
(***************************************************************************)
entryPatterns(p) ==
  \/ TopLevelFile(p, {"index", "main", "app", "server"}, JsExts)
  \/ TopLevelFile(p, {"App"}, {"tsx", "jsx"})
  \/ p.dirs = <<"pages">> /\ Len(p.file) = 2 /\ p.file[1] = "_app" /\ p.file[2] \in {"tsx", "jsx"}
  \/ p.dirs = <<"app">> /\ Len(p.file) = 2 /\ p.file[1] = "layout" /\ p.file[2] \in {"tsx", "jsx"}

\* lines 493-499: the paths of the tree that match and are not yet listed
RECURSIVE AddTreeEntries(_, _)
AddTreeEntries(found, tree) ==
  IF tree = <<>> THEN found
  ELSE AddTreeEntries(IF entryPatterns(tree[1]) /\ tree[1] \notin Range(found)
                      THEN Append(found, tree[1])
                      ELSE found,
                      Tail(tree))

AllEntryPoints(files, tree) ==
  LET fromSample == SelectSeq([n \in 1..Len(files) |-> files[n].path], entryPatterns)
  IN IF IsList(tree) THEN AddTreeEntries(fromSample, tree) ELSE fromSample

MaxEntryPoints == 5

findEntryPoints(files, tree) == Slice(AllEntryPoints(files, tree), 0, MaxEntryPoints)

(***************************************************************************)
(* detectPatterns, lines 202-274.                                          *)
(***************************************************************************)
\* the explored chunks that hold the words of each expression
HookChunks == {"useState", "useEffect", "useCallback", "useMemo"}
ContextChunks == {"useContext", "createContext"}
JwtChunks == {"jwt", "jsonwebtoken", "Bearer"}
GraphqlChunks == {"graphql"}

\* the chunks that start with a verb of /router\.(get|post|put|delete|patch)/
StartingWithVerb == {"get", "post", "put", "delete", "patch", "getAll"}

\* the chunks that end with "router", in this case
EndingWithRouter == {"router"}

\* the text holds a chunk of A directly followed by a chunk of B
Adjacent(s, A, B) == \E k \in 1..(Len(s) - 1) : s[k] \in A /\ s[k + 1] \in B

Holds(s, A) == \E k \in 1..Len(s) : s[k] \in A

\* /router\.(get|post|put|delete|patch)/.test(s)
RouterCallPattern(s) ==
  \E k \in 1..(Len(s) - 2) :
    s[k] \in EndingWithRouter /\ s[k + 1] = "." /\ s[k + 2] \in StartingWithVerb

\* sourceFiles.map(f => f.content).join(NL)
allContent(files) == Join([n \in 1..Len(files) |-> files[n].content])

\* patterns.add(label) when the test holds: a Set keeps one copy, in
\* insertion order
AddIf(patterns, test, label) ==
  IF test /\ label \notin Range(patterns) THEN Append(patterns, label) ELSE patterns

detectPatterns(files, manifest) ==
  LET s == allContent(files)
      deps == DepNames(manifest)
      p1 == AddIf(<<>>, Holds(s, HookChunks), "React Hooks")
      p2 == AddIf(p1, Holds(s, ContextChunks), "React Context API")
      p3 == AddIf(p2, Includes(deps, Pkg("redux")) \/ Includes(deps, Scoped("reduxjs", "toolkit")),
                  "Redux State Management")
      p4 == AddIf(p3, Includes(deps, Pkg("zustand")), "Zustand State Management")
      p5 == AddIf(p4, RouterCallPattern(s), "RESTful API Routes")
      p6 == AddIf(p5, \/ Holds(s, GraphqlChunks)
                      \/ Adjacent(s, {"gql"}, {Backquote})
                      \/ Adjacent(s, {"@"}, {"Query", "Mutation"}),
                  "GraphQL API")
      p7 == AddIf(p6, Adjacent(s, {"@"}, {"Controller", "Injectable", "Module"}),
                  "Dependency Injection")
      p8 == AddIf(p7, Includes(deps, Scoped("prisma", "client")) \/ Includes(deps, Pkg("prisma")),
                  "Prisma ORM")
      p9 == AddIf(p8, Includes(deps, Pkg("mongoose")), "MongoDB with Mongoose")
      p10 == AddIf(p9, Includes(deps, Pkg("typeorm")), "TypeORM")
      p11 == AddIf(p10, Holds(s, JwtChunks), "JWT Authentication")
      p12 == AddIf(p11, Includes(deps, Scoped("supabase", "supabase-js")), "Supabase Auth")
      p13 == AddIf(p12, Includes(deps, Pkg("next-auth")), "NextAuth.js")
      p14 == AddIf(p13, Includes(deps, Pkg("jest")) \/ Includes(deps, Pkg("vitest")),
                   "Unit Testing")
      p15 == AddIf(p14, Includes(deps, Pkg("cypress")) \/ Includes(deps, Pkg("playwright")),
                   "E2E Testing")
      p16 == AddIf(p15, Includes(deps, Pkg("typescript")), "TypeScript")
  IN AddIf(p16, Includes(deps, Pkg("tailwindcss")), "Tailwind CSS")

(***************************************************************************)
(* analyzeCodebase, lines 524-539, and its caller, routes/readme.ts.       *)
(***************************************************************************)
analyzeCodebase(files, manifest, langs, tree) ==
  [architecture |-> detectArchitecture(manifest, langs, tree),
   entryPoints |-> findEntryPoints(files, tree),
   exports |-> extractExports(files),
   routes |-> detectRoutes(files),
   components |-> detectComponents(files),
   patterns |-> detectPatterns(files, manifest),
   techStack |-> extractTechStack(manifest)]

\* the text of package.json: one JSON.parse accepts, with the value it
\* denotes, or one it rejects
JsonText(value) == [valid |-> TRUE, value |-> value]

Malformed == [valid |-> FALSE]

\* readme.ts lines 44-47: the value left in parsedPackageJson
ParsedManifest(fetched) ==
  IF fetched # Null /\ fetched.text.valid THEN fetched.text.value ELSE Undefined

\* the state of the classifier while getKeySourceFiles is observed
AnalyzerIdle ==
  /\ packageJson = Null
  /\ parsedPackageJson = Undefined
  /\ languages = Undefined
  /\ sourceFiles = <<>>
  /\ apc = "idle"
  /\ codeAnalysis = [f \in {} |-> Undefined]
  /\ enhancedDependencies = <<>>
  /\ DEPENDENCY_DESCRIPTIONS = DescriptionTable
  /\ history = <<>>

(***************************************************************************)
(* getKeySourceFiles as a state machine.  pc: "start" (called), "select"   *)
(* (in the loop of line 439), "fetch" (at the head of the loop of line     *)
(* 455), "await" (inside Promise.all), "done" (returned).                  *)
(***************************************************************************)
InitFrom(inputs) ==
  \E inp \in inputs :
    /\ fileTree = inp.tree
    /\ maxFiles = inp.maxFiles
    /\ maxLinesPerFile = inp.maxLines
    /\ host = inp.host
    /\ pc = "start"
    /\ categorizedFiles = <<>>
    /\ walk = 1
    /\ selectedFiles = <<>>
    /\ categoryCounts = [c \in {} |-> 0]
    /\ i = 0
    /\ pending = {}
    /\ results = [k \in {} |-> Null]
    /\ codeFiles = <<>>
    /\ fetchLog = <<>>
    /\ AnalyzerIdle

Init == InitFrom(Inputs)

\* lines 417-437
Start ==
  /\ pc = "start"
  /\ categorizedFiles' = Categorize(fileTree)
  /\ pc' = "select"
  /\ UNCHANGED <<fileTree, maxFiles, maxLinesPerFile, host, walk, selectedFiles,
                 categoryCounts, i, pending, results, codeFiles, fetchLog>>
  /\ UNCHANGED analyzerVars

\* one iteration of the loop of lines 439-449 that does not break
SelectStep ==
  /\ pc = "select"
  /\ walk <= Len(categorizedFiles)
  /\ ~CapReached(selectedFiles, maxFiles)
  /\ LET file == categorizedFiles[walk]
         limit == LimitOf(file.category)
         count == CountOf(categoryCounts, file.category)
     IN IF Admits(count, limit)
        THEN /\ selectedFiles' = Append(selectedFiles, file.path)
             /\ categoryCounts' =
                  [c \in DOMAIN categoryCounts \cup {file.category} |->
                     IF c = file.category THEN count + 1 ELSE categoryCounts[c]]
        ELSE UNCHANGED <<selectedFiles, categoryCounts>>
  /\ walk' = walk + 1
  /\ UNCHANGED <<fileTree, maxFiles, maxLinesPerFile, host, pc, categorizedFiles,
                 i, pending, results, codeFiles, fetchLog>>
  /\ UNCHANGED analyzerVars

\* the loop ends: the list is exhausted or line 440 breaks
SelectDone ==
  /\ pc = "select"
  /\ walk > Len(categorizedFiles) \/ CapReached(selectedFiles, maxFiles)
  /\ pc' = "fetch"
  /\ UNCHANGED <<fileTree, maxFiles, maxLinesPerFile, host, categorizedFiles, walk,
                 selectedFiles, categoryCounts, i, pending, results, codeFiles, fetchLog>>
  /\ UNCHANGED analyzerVars

\* selectedFiles.slice(i, i + batchSize), as positions of selectedFiles
BatchPositions(from, sel) == (from + 1)..Min(from + batchSize, Len(sel))

\* lines 455-460: the batch is cut and batch.map calls getFileContent for
\* each of its paths, in order, before the first await yields
IssueBatch ==
  /\ pc = "fetch"
  /\ i < Len(selectedFiles)
  /\ pending' = pending \cup BatchPositions(i, selectedFiles)
  /\ fetchLog' = fetchLog \o Slice(selectedFiles, i, i + batchSize)
  /\ pc' = "await"
  /\ UNCHANGED <<fileTree, maxFiles, maxLinesPerFile, host, categorizedFiles, walk,
                 selectedFiles, categoryCounts, i, results, codeFiles>>
  /\ UNCHANGED analyzerVars

\* faulty variant: a fetch that yields nothing is issued a second time
CompleteFetchRetry(k) ==
  /\ pc = "await"
  /\ k \in pending
  /\ LET r == FetchResult(selectedFiles[k], getFileContent(host[selectedFiles[k]]),
                          maxLinesPerFile)
         calls == Cardinality({n \in 1..Len(fetchLog) : fetchLog[n] = selectedFiles[k]})
     IN IF r = Null /\ calls < 2
        THEN /\ fetchLog' = Append(fetchLog, selectedFiles[k])
             /\ UNCHANGED <<pending, results>>
        ELSE /\ pending' = pending \ {k}
             /\ results' = [n \in DOMAIN results \cup {k} |-> IF n = k THEN r ELSE results[n]]
             /\ UNCHANGED fetchLog
  /\ UNCHANGED <<fileTree, maxFiles, maxLinesPerFile, host, pc, categorizedFiles, walk,
                 selectedFiles, categoryCounts, i, codeFiles>>
  /\ UNCHANGED analyzerVars

\* faulty variant: a fetch that fails or finds nothing never settles
CompleteFetchUncaught(k) ==
  /\ pc = "await"
  /\ k \in pending
  /\ getFileContent(host[selectedFiles[k]]) # Null
  /\ pending' = pending \ {k}
  /\ results' =
       [n \in DOMAIN results \cup {k} |->
          IF n = k
          THEN FetchResult(selectedFiles[k], getFileContent(host[selectedFiles[k]]),
                           maxLinesPerFile)
          ELSE results[n]]
  /\ UNCHANGED <<fileTree, maxFiles, maxLinesPerFile, host, pc, categorizedFiles, walk,
                 selectedFiles, categoryCounts, i, codeFiles, fetchLog>>
  /\ UNCHANGED analyzerVars

\* one fetch of the batch completes and its callback runs to its return
CompleteFetch(k) ==
  /\ pc = "await"
  /\ k \in pending
  /\ pending' = pending \ {k}
  /\ results' =
       [n \in DOMAIN results \cup {k} |->
          IF n = k
          THEN FetchResult(selectedFiles[k], getFileContent(host[selectedFiles[k]]),
                           maxLinesPerFile)
          ELSE results[n]]
  /\ UNCHANGED <<fileTree, maxFiles, maxLinesPerFile, host, pc, categorizedFiles, walk,
                 selectedFiles, categoryCounts, i, codeFiles, fetchLog>>
  /\ UNCHANGED analyzerVars

\* Promise.all resolves; line 485 and i += batchSize
CollectBatch ==
  /\ pc = "await"
  /\ AllSettled(pending)
  /\ codeFiles' = codeFiles \o NonNull(results, i + 1, Min(i + batchSize, Len(selectedFiles)))
  /\ i' = i + batchSize
  /\ pc' = "fetch"
  /\ UNCHANGED <<fileTree, maxFiles, maxLinesPerFile, host, categorizedFiles, walk,
                 selectedFiles, categoryCounts, pending, results, fetchLog>>
  /\ UNCHANGED analyzerVars

\* line 488
Return ==
  /\ pc = "fetch"
  /\ i >= Len(selectedFiles)
  /\ pc' = "done"
  /\ UNCHANGED <<fileTree, maxFiles, maxLinesPerFile, host, categorizedFiles, walk,
                 selectedFiles, categoryCounts, i, pending, results, codeFiles, fetchLog>>
  /\ UNCHANGED analyzerVars

Next ==
  \/ Start
  \/ SelectStep
  \/ SelectDone
  \/ IssueBatch
  \/ \E k \in 1..DefaultMaxFiles : CompleteFetch(k)
  \/ CollectBatch
  \/ Return

Spec == Init /\ [][Next]_vars

\* the synchronous code between two awaits runs to the next await
Synchronous == Start \/ SelectStep \/ SelectDone \/ IssueBatch \/ CollectBatch \/ Return

\* the code host answers every request it has received
HostAnswers == \E k \in 1..DefaultMaxFiles : CompleteFetch(k)

\* getKeySourceFiles on an event loop that runs what is ready, with a code
\* host that answers every fetch
FairSpec == InitFrom(TerminationInputs) /\ [][Next]_vars /\ WF_vars(Synchronous) /\ WF_vars(HostAnswers)


(***************************************************************************)
(* The classifier as a state machine: the manifest is parsed (readme.ts,   *)
(* lines 44-47), analyzeCodebase evaluates the seven properties of its     *)
(* result in the order of lines 531-537, and getEnhancedDependencies       *)
(* annotates the dependencies.  apc names the step to come.                *)
(***************************************************************************)
Request(tree, manifest, langs, files) ==
  [tree |-> tree, packageJson |-> manifest, languages |-> langs, sample |-> files]

\* the request that is being served
CurrentRequest == Request(fileTree, packageJson, languages, sourceFiles)

\* getKeySourceFiles is not observed
SamplerIdle ==
  /\ maxFiles = DefaultMaxFiles
  /\ maxLinesPerFile = DefaultMaxLines
  /\ host = [p \in {} |-> Null]
  /\ pc = "idle"
  /\ categorizedFiles = <<>>
  /\ walk = 1
  /\ selectedFiles = <<>>
  /\ categoryCounts = [c \in {} |-> 0]
  /\ i = 0
  /\ pending = {}
  /\ results = [k \in {} |-> Null]
  /\ codeFiles = <<>>
  /\ fetchLog = <<>>

AnalyzerInitFrom(requests) ==
  \E req \in requests :
    /\ fileTree = req.tree
    /\ packageJson = req.packageJson
    /\ languages = req.languages
    /\ sourceFiles = req.sample
    /\ parsedPackageJson = Undefined
    /\ apc = "parse"
    /\ codeAnalysis = [f \in {} |-> Undefined]
    /\ enhancedDependencies = <<>>
    /\ DEPENDENCY_DESCRIPTIONS = DescriptionTable
    /\ history = <<>>
    /\ SamplerIdle

\* what a step of the analysis leaves alone
AnalysisFrame ==
  UNCHANGED <<fileTree, samplerVars, packageJson, parsedPackageJson, languages, sourceFiles,
              enhancedDependencies, DEPENDENCY_DESCRIPTIONS, history>>

\* result.field = value
WithProperty(result, field, value) ==
  [f \in DOMAIN result \cup {field} |-> IF f = field THEN value ELSE result[f]]

\* readme.ts lines 44-47
ParseManifest ==
  /\ apc = "parse"
  /\ parsedPackageJson' = ParsedManifest(packageJson)
  /\ apc' = "architecture"
  /\ UNCHANGED <<fileTree, samplerVars, packageJson, languages, sourceFiles, codeAnalysis,
                 enhancedDependencies, DEPENDENCY_DESCRIPTIONS, history>>

\* line 531
DetectArchitecture ==
  /\ apc = "architecture"
  /\ codeAnalysis' = WithProperty(codeAnalysis, "architecture",
                                  detectArchitecture(parsedPackageJson, languages, fileTree))
  /\ apc' = "entryPoints"
  /\ AnalysisFrame

\* line 532
FindEntryPoints ==
  /\ apc = "entryPoints"
  /\ codeAnalysis' = WithProperty(codeAnalysis, "entryPoints",
                                  findEntryPoints(sourceFiles, fileTree))
  /\ apc' = "exports"
  /\ AnalysisFrame

\* line 533
ExtractExports ==
  /\ apc = "exports"
  /\ codeAnalysis' = WithProperty(codeAnalysis, "exports", extractExports(sourceFiles))
  /\ apc' = "routes"
  /\ AnalysisFrame

\* line 534
DetectRoutes ==
  /\ apc = "routes"
  /\ codeAnalysis' = WithProperty(codeAnalysis, "routes", detectRoutes(sourceFiles))
  /\ apc' = "components"
  /\ AnalysisFrame

\* line 535
DetectComponents ==
  /\ apc = "components"
  /\ codeAnalysis' = WithProperty(codeAnalysis, "components", detectComponents(sourceFiles))
  /\ apc' = "patterns"
  /\ AnalysisFrame

\* faulty variant: the set of patterns is shared by all calls
DetectPatternsShared ==
  /\ apc = "patterns"
  /\ codeAnalysis' =
       WithProperty(codeAnalysis, "patterns",
                    (IF history = <<>> THEN <<>> ELSE Last(history).analysis.patterns)
                      \o detectPatterns(sourceFiles, parsedPackageJson))
  /\ apc' = "techStack"
  /\ AnalysisFrame

\* line 536
DetectPatterns ==
  /\ apc = "patterns"
  /\ codeAnalysis' = WithProperty(codeAnalysis, "patterns",
                                  detectPatterns(sourceFiles, parsedPackageJson))
  /\ apc' = "techStack"
  /\ AnalysisFrame

\* lines 537-538: the last property, and the result is returned
ExtractTechStack ==
  /\ apc = "techStack"
  /\ codeAnalysis' = WithProperty(codeAnalysis, "techStack", extractTechStack(parsedPackageJson))
  /\ apc' = "returned"
  /\ AnalysisFrame

\* a call of getEnhancedDependencies with the parsed manifest
GetEnhancedDependencies ==
  /\ apc = "returned"
  /\ enhancedDependencies' = getEnhancedDependencies(DEPENDENCY_DESCRIPTIONS, parsedPackageJson)
  /\ apc' = "annotated"
  /\ UNCHANGED <<fileTree, samplerVars, packageJson, parsedPackageJson, languages, sourceFiles,
                 codeAnalysis, DEPENDENCY_DESCRIPTIONS, history>>

(***************************************************************************)
(* The requests of the exploration.                                        *)
(***************************************************************************)
\* the words, one blank apart
RECURSIVE Spaced(_)
Spaced(ws) ==
  IF Len(ws) <= 1 THEN ws ELSE <<ws[1], Blank>> \o Spaced(Tail(ws))

\* obj.verb(path, handler), the path in quotes
Call(obj, verb, path) ==
  <<obj, ".", verb, "(", "'", path, "'", ",", Blank, "handler", ")">>

ExportFunctionLine == Spaced(<<"export", "function", "handler">>) \o <<"(", ")">>
ExportGetLine == Spaced(<<"export", "async", "function", "GET">>) \o <<"(", ")">>
ExportConstPostLine == Spaced(<<"export", "const", "POST", "=", "handler">>)
ExportDefaultFunctionLine == Spaced(<<"export", "default", "function", "Home">>) \o <<"(", ")">>
ExportDefaultLine == Spaced(<<"export", "default", "handler">>)
ExportInterfaceLine == Spaced(<<"export", "interface", "Props">>)
HookLine == Spaced(<<"const", "x", "=", "useState">>) \o <<"(", ")">>
RouterGetLine == Call("router", "get", "/users")
RouterCapitalLine == Call("Router", "get", "/users")
AppPostLine == Call("app", "post", "/items")
ArrowComponentLine == Spaced(<<"const", "Button", "=">>) \o <<Blank, "(", ")", Blank, "=>">>
FunctionComponentLine == Spaced(<<"function", "RootLayout">>) \o <<"(", ")">>
PlainLine == Spaced(<<"return", "x">>)

\* the lines the enumerated contents are made of
LineCatalogue ==
  {ExportGetLine, ExportConstPostLine, ExportDefaultFunctionLine, ExportDefaultLine,
   HookLine, RouterGetLine, RouterCapitalLine, AppPostLine, PlainLine}

\* the contents of at most n lines of the catalogue
ContentsUpTo(n) == {Join(ls) : ls \in UNION {[1..k -> LineCatalogue] : k \in 0..n}}

CodeFile(path, content) ==
  [path |-> path, language |-> getLanguageFromPath(path), content |-> content,
   lineCount |-> Len(Split(content))]

\* n times the line
Repeated(line, n) == Join([k \in 1..n |-> line])

ApiPaths ==
  {P(<<"pages", "api">>, <<"users", "ts">>), P(<<"src", "app", "api", "users">>, <<"route", "ts">>),
   P(<<"app", "api", "items">>, <<"index", "js">>)}

TextPaths ==
  ApiPaths \cup {P(<<"src", "routes">>, <<"users", "ts">>), P(<<"src", "pages">>, <<"Home", "tsx">>)}

\* one sampled file, every path and every content of at most MaxLines lines
TextRequests ==
  {Request(<<p>>, Null, Undefined, <<CodeFile(p, c)>>) :
     p \in TextPaths, c \in ContentsUpTo(MaxLines)}

\* two sampled files of one line each
TwoFileRequests ==
  {Request(<<>>, Null, Undefined,
           <<CodeFile(P(<<"src", "routes">>, <<"users", "ts">>), a),
             CodeFile(P(<<"src", "pages">>, <<"Home", "tsx">>), b)>>) :
     a \in LineCatalogue, b \in LineCatalogue}

\* a file of router calls, then a file under an API directory
ApiSecondRequests ==
  {Request(<<>>, Null, Undefined,
           <<CodeFile(P(<<"src", "routes">>, <<"users", "ts">>), a), CodeFile(p, ExportGetLine)>>) :
     a \in LineCatalogue, p \in ApiPaths}

DepChoices == {Pkg("next"), Pkg("react"), Pkg("vite"), Pkg("express")}

WithVersion(names) == [k \in 1..Len(names) |-> Dep(names[k], "^1.0.0")]

\* the manifests with at most MaxDeps dependencies, in every order and with
\* every split between dependencies and devDependencies
ManifestsUpTo(n) ==
  UNION {{[name |-> "demo",
           dependencies |-> WithVersion(SubSeq(names, 1, cut)),
           devDependencies |-> WithVersion(SubSeq(names, cut + 1, Len(names)))] :
            cut \in 0..Len(names)} : names \in DistinctSeqs(DepChoices, n)}

LanguageChoices ==
  {Undefined,
   [l \in {} |-> 0],
   [l \in {"Python"} |-> 50000],
   [l \in {"Python", "TypeScript"} |-> IF l = "Python" THEN 50000 ELSE 60000],
   [l \in {"Go"} |-> 20000],
   [l \in {"Go"} |-> 5000],
   [l \in {"Go", "TypeScript"} |-> IF l = "Go" THEN 20000 ELSE 60000],
   [l \in {"Rust", "TypeScript"} |-> IF l = "Rust" THEN 1 ELSE 60000],
   [l \in {"TypeScript"} |-> 1]}

ManifestRequests ==
  {Request(<<>>, Some(JsonText(m)), langs, <<>>) :
     m \in ManifestsUpTo(MaxDeps), langs \in {Undefined, [l \in {"TypeScript"} |-> 1]}}

MarkerPaths ==
  {P(<<>>, <<"manage", "py">>), P(<<>>, <<"requirements", "txt">>), P(<<>>, <<"Cargo", "toml">>),
   P(<<"src">>, <<"index", "ts">>), P(<<"api">>, <<"main", "py">>)}

\* a framework and the library it is built on
FrameworkPairs ==
  {<<Pkg("next"), Pkg("react")>>, <<Pkg("nuxt"), Pkg("vue")>>,
   <<Scoped("sveltejs", "kit"), Pkg("svelte")>>, <<Scoped("nestjs", "core"), Pkg("express")>>,
   <<Pkg("react-native"), Pkg("react")>>}

\* a manifest for each pair, in both orders and with every split between
\* dependencies and devDependencies
FrameworkRequests ==
  {Request(<<>>,
           Some(JsonText([name |-> "demo",
                          dependencies |-> WithVersion(SubSeq(names, 1, cut)),
                          devDependencies |-> WithVersion(SubSeq(names, cut + 1, 2))])),
           Undefined, <<>>) :
     names \in UNION {{pair, <<pair[2], pair[1]>>} : pair \in FrameworkPairs}, cut \in 0..2}

\* export default kw name {
DefaultExportLine(kw, name) == Spaced(<<"export", "default", kw, name, "{">>)

DefaultExportNames == {"Home", "UserService", "handler", "helper"}

\* one file of one default export, a function or a class, of each name, and
\* the same after a line of its own
DefaultExportRequests ==
  {Request(<<>>, Null, Undefined,
           <<CodeFile(P(<<"src", "lib">>, <<"thing", "ts">>),
                      Join(before \o <<DefaultExportLine(kw, name)>>))>>) :
     kw \in {"function", "class"}, name \in DefaultExportNames,
     before \in {<<>>, <<ExportConstPostLine>>}}

\* a file under a directory whose name ends with app, not under app
ApiLookalikeRequests ==
  {Request(<<>>, Null, Undefined,
           <<CodeFile(P(<<"src", "webapp", "api">>, <<"users", "ts">>), line)>>) :
     line \in {ExportGetLine, ExportDefaultLine, PlainLine}}

FunctionButtonLine == Spaced(<<"function", "Button">>) \o <<"(", ")">>

ComponentLines ==
  {ArrowComponentLine, FunctionComponentLine, FunctionButtonLine, ExportDefaultFunctionLine}

ComponentFilePaths ==
  {P(<<"src", "pages">>, <<"Home", "tsx">>), P(<<"pages">>, <<"index", "tsx">>),
   P(<<"src", "components">>, <<"Button", "tsx">>), P(<<"src", "layouts">>, <<"Main", "jsx">>),
   P(<<"src", "components">>, <<"Button", "ts">>)}

\* one file of one or two component declarations
ComponentRequests ==
  {Request(<<>>, Null, Undefined, <<CodeFile(p, Join(ls))>>) :
     p \in ComponentFilePaths, ls \in UNION {[1..k -> ComponentLines] : k \in 1..2}}

SrcIndex == P(<<"src">>, <<"index", "ts">>)

MainTs == P(<<>>, <<"main", "ts">>)

\* samples and path lists that repeat a path
RepeatedPathRequests ==
  {Request(t, Null, Undefined, f) :
     t \in {<<>>, <<SrcIndex, MainTs, MainTs>>, <<MainTs, SrcIndex, MainTs, SrcIndex>>},
     f \in {<<CodeFile(SrcIndex, PlainLine)>>,
            <<CodeFile(SrcIndex, PlainLine), CodeFile(SrcIndex, PlainLine)>>,
            <<CodeFile(SrcIndex, PlainLine), CodeFile(MainTs, PlainLine),
              CodeFile(SrcIndex, HookLine)>>}}

\* the manifests that carry no dependency: none fetched, a text that does not
\* parse, and objects without dependencies and devDependencies
BareManifests ==
  {Null, Some(Malformed), Some(JsonText([name |-> "demo"])),
   Some(JsonText([name |-> "demo", main |-> "index.js"]))}

\* every bare manifest, language statistics and short tree of marker paths
MarkerRequests ==
  {Request(t, m, langs, <<>>) :
     t \in DistinctSeqs(MarkerPaths, MaxMarkers), m \in BareManifests, langs \in LanguageChoices}

\* calls of analyzeCodebase without a path list
AbsentTreeRequests ==
  {Request(UndefinedList, m, langs, <<>>) : m \in BareManifests, langs \in LanguageChoices}

\* more entry-point paths than MaxEntryPoints
ManyEntryPaths ==
  <<P(<<>>, <<"index", "ts">>), P(<<>>, <<"main", "ts">>), P(<<>>, <<"app", "ts">>),
    P(<<>>, <<"server", "ts">>), P(<<"src">>, <<"index", "ts">>), P(<<"src">>, <<"App", "tsx">>),
    P(<<"pages">>, <<"_app", "tsx">>)>>

\* more dependencies than MaxAnnotations: keys of the description table,
\* scoped packages and packages it does not know
ManyDependencies ==
  WithVersion(
    <<Pkg("react"), Pkg("next"), Scoped("nestjs", "common"), Pkg("left-pad"), Pkg("express"),
      Pkg("vue"), Pkg("svelte"), Pkg("redux"), Pkg("zustand"), Pkg("axios"), Pkg("swr"),
      Scoped("prisma", "client"), Pkg("mongoose"), Pkg("typeorm"), Pkg("knex"), Pkg("passport"),
      Pkg("firebase"), Pkg("sass"), Pkg("antd"), Pkg("jest"), Pkg("vite"), Pkg("zod")>>)

\* a sample with more exports than MaxExports, more routes than MaxRoutes and
\* more components than MaxComponents, spread over two files
ManyFindings ==
  <<CodeFile(P(<<"src", "routes">>, <<"users", "ts">>),
             Join(<<Repeated(ExportFunctionLine, MaxExports \div 2 + 1),
                    Repeated(RouterGetLine, MaxRoutes \div 2 + 1)>>)),
    CodeFile(P(<<"src", "pages">>, <<"Home", "tsx">>),
             Join(<<Repeated(ExportDefaultFunctionLine, MaxExports \div 2 + 1),
                    Repeated(AppPostLine, MaxRoutes \div 2 + 1),
                    Repeated(ArrowComponentLine, 2),
                    Repeated(FunctionComponentLine, MaxComponents \div 2)>>))>>

\* every list of the result overflows its cap, or some do
OverflowRequests ==
  {Request(t, Some(JsonText([name |-> "demo", dependencies |-> d])), Undefined, f) :
     t \in {<<>>, ManyEntryPaths}, d \in {<<>>, ManyDependencies}, f \in {<<>>, ManyFindings}}

AnalyzerRequests ==
  TextRequests \cup TwoFileRequests \cup ApiSecondRequests \cup ManifestRequests
    \cup FrameworkRequests \cup RepeatedPathRequests \cup DefaultExportRequests
    \cup ApiLookalikeRequests \cup ComponentRequests \cup MarkerRequests
    \cup AbsentTreeRequests \cup OverflowRequests

AnalyzerInit == AnalyzerInitFrom(AnalyzerRequests)

AnalyzerNext ==
  \/ ParseManifest
  \/ DetectArchitecture
  \/ FindEntryPoints
  \/ ExtractExports
  \/ DetectRoutes
  \/ DetectComponents
  \/ DetectPatterns
  \/ ExtractTechStack
  \/ GetEnhancedDependencies

AnalyzerSpec == AnalyzerInit /\ [][AnalyzerNext]_vars

\* The route handler serves one request after another, each with a call of
\* analyzeCodebase of its own; history keeps what the earlier calls were
\* given and what they returned.
RepeatRequests ==
  {Request(<<>>, Null, Undefined, <<>>),
   Request(<<>>, Null, Undefined,
           <<CodeFile(P(<<"src", "routes">>, <<"users", "ts">>),
                      Join(<<RouterGetLine, HookLine>>))>>),
   Request(<<>>, Some(JsonText([name |-> "demo",
                                dependencies |-> WithVersion(<<Pkg("next"), Pkg("react")>>)])),
           [l \in {"TypeScript"} |-> 1], <<>>),
   Request(<<>>, Some(JsonText([name |-> "demo",
                                dependencies |->
                                  WithVersion(<<Pkg("redux"), Scoped("nestjs", "common")>>)])),
           Undefined, <<>>),
   Request(<<P(<<>>, <<"manage", "py">>), P(<<>>, <<"requirements", "txt">>)>>, Null,
           [l \in {"Python"} |-> 50000], <<>>)}

\* readme.ts lines 37-55, for the request after this one
NextRequest ==
  /\ apc = "annotated"
  /\ Len(history) + 1 < MaxCalls
  /\ history' = Append(history, [request |-> CurrentRequest, analysis |-> codeAnalysis,
                                 dependencies |-> enhancedDependencies])
  /\ \E req \in RepeatRequests :
       /\ fileTree' = req.tree
       /\ packageJson' = req.packageJson
       /\ languages' = req.languages
       /\ sourceFiles' = req.sample
  /\ parsedPackageJson' = Undefined
  /\ codeAnalysis' = [f \in {} |-> Undefined]
  /\ enhancedDependencies' = <<>>
  /\ apc' = "parse"
  /\ UNCHANGED <<samplerVars, DEPENDENCY_DESCRIPTIONS>>

RepeatInit == AnalyzerInitFrom(RepeatRequests)

RepeatNext == AnalyzerNext \/ NextRequest

RepeatSpec == RepeatInit /\ [][RepeatNext]_vars


(***************************************************************************)
(* Vocabulary of the properties.                                           *)
(***************************************************************************)
RuleOrder == <<"entry", "config", "types", "routes", "services", "components">>

RuleMatches(c, p) ==
  CASE c = "entry" -> ENTRY_POINT_PATTERNS(p)
    [] c = "config" -> CONFIG_PATTERNS(p)
    [] c = "types" -> TYPE_PATTERNS(p)
    [] c = "routes" -> ROUTE_PATTERNS(p)
    [] c = "services" -> SERVICE_PATTERNS(p)
    [] c = "components" -> COMPONENT_PATTERNS(p)

MatchingRules(p) == {k \in 1..Len(RuleOrder) : RuleMatches(RuleOrder[k], p)}

\* the category of the first rule of RuleOrder that matches p
FirstMatch(p) ==
  LET m == MatchingRules(p)
  IN IF m = {} THEN "other"
     ELSE RuleOrder[CHOOSE k \in m : \A n \in m : k <= n]

\* rank of a category in the inclusion priority, entry highest
Rank(c) ==
  IF c = "other" THEN Len(RuleOrder) + 1
  ELSE CHOOSE k \in 1..Len(RuleOrder) : RuleOrder[k] = c

Eligible(p) == ~SKIP_PATTERNS(p) /\ HasSourceExtension(p)

ClaimedCaps ==
  [entry |-> 3, config |-> 3, types |-> 2, routes |-> 4,
   services |-> 4, components |-> 4, other |-> 2]

PathsOf(files) == [k \in 1..Len(files) |-> files[k].path]

\* the categories of a sequence of paths
CategoriesOf(paths) == [k \in 1..Len(paths) |-> FirstMatch(paths[k])]

\* how many entries of a sequence of categories are c
CountIn(cats, c) == Cardinality({k \in 1..Len(cats) : cats[k] = c})

\* the categories of the candidates the tree offers, in input order
Candidates == CategoriesOf(SelectSeq(fileTree, Eligible))

PositionIn(s, x) == CHOOSE k \in 1..Len(s) : s[k] = x

(***************************************************************************)
(* C1: at every step of the greedy walk and in the final output, at most   *)
(* maxFiles files are selected and at most cap(c) of each category c       *)
(* (entry 3, config 3, types 2, routes 4, services 4, components 4,        *)
(* other 2).                                                               *)
(***************************************************************************)
C1_CapsRespected ==
  /\ Len(selectedFiles) <= maxFiles
  /\ Len(codeFiles) <= maxFiles
  /\ LET sel == CategoriesOf(selectedFiles)
         out == CategoriesOf(PathsOf(codeFiles))
     IN \A c \in Categories :
          /\ CountIn(sel, c) <= ClaimedCaps[c]
          /\ CountIn(out, c) <= ClaimedCaps[c]

\* the run is over, line 440 broke the walk at a candidate its category
\* would still have admitted, and some category turned a candidate away
C1_Witness ==
  /\ pc = "done"
  /\ Len(selectedFiles) = maxFiles
  /\ walk <= Len(categorizedFiles)
  /\ LET sel == CategoriesOf(selectedFiles)
         cand == Candidates
     IN /\ CountIn(sel, categorizedFiles[walk].category)
             < ClaimedCaps[categorizedFiles[walk].category]
        /\ \E c \in Categories :
             CountIn(sel, c) = ClaimedCaps[c] /\ CountIn(cand, c) > ClaimedCaps[c]

(***************************************************************************)
(* C2: Scenario F. With candidates spread as 4 entry, 5 config, 3 types,   *)
(* 6 routes, 5 services, 4 components and a file cap of 20, the walk       *)
(* admits 3 entry, 3 config, 2 types, 4 routes, 4 services and fills the   *)
(* four remaining slots with components.                                   *)
(***************************************************************************)
ScenarioF ==
  /\ maxFiles = 20
  /\ Len(fileTree) >= 27
  /\ LET cand == Candidates
     IN /\ CountIn(cand, "entry") = 4 /\ CountIn(cand, "config") = 5
        /\ CountIn(cand, "types") = 3 /\ CountIn(cand, "routes") = 6
        /\ CountIn(cand, "services") = 5 /\ CountIn(cand, "components") = 4

C2_ScenarioF ==
  (pc \notin {"start", "select"} /\ ScenarioF) =>
    LET sel == CategoriesOf(selectedFiles)
    IN /\ CountIn(sel, "entry") = 3
       /\ CountIn(sel, "config") = 3
       /\ CountIn(sel, "types") = 2
       /\ CountIn(sel, "routes") = 4
       /\ CountIn(sel, "services") = 4
       /\ Len(sel) = 20
       /\ \A k \in 17..20 : sel[k] = "components"

\* Scenario F ran to its end on a tree that also offers files of category other
C2_Witness == pc = "done" /\ ScenarioF /\ CountIn(Candidates, "other") > 0

C4_FirstRuleWins ==
  /\ \A p \in Range(fileTree) :
       /\ categorizeFile(p).category \in Categories
       /\ categorizeFile(p).category = FirstMatch(p)
  /\ \A k \in 1..Len(categorizedFiles) :
       categorizedFiles[k].category = FirstMatch(categorizedFiles[k].path)
  /\ \A rank \in {[k \in 1..Len(categorizedFiles) |-> Rank(categorizedFiles[k].category)]} :
       \A k, n \in 1..Len(categorizedFiles) :
         rank[k] < rank[n] <=> categorizedFiles[k].priority < categorizedFiles[n].priority

\* the categorized list holds a path that two rules match and one no rule matches
C4_Witness ==
  /\ pc = "select"
  /\ \E k \in 1..Len(categorizedFiles) : Cardinality(MatchingRules(categorizedFiles[k].path)) >= 2
  /\ \E k \in 1..Len(categorizedFiles) : MatchingRules(categorizedFiles[k].path) = {}

(***************************************************************************)
(* C5: of two candidates of one category the later one of the input is     *)
(* selected only if the earlier one is, and the selected list is ordered   *)
(* by category priority and, within a category, by input order.            *)
(***************************************************************************)
C5_InputOrderBreaksTies ==
  \A cand \in {SelectSeq(fileTree, Eligible)} :
  \A cat \in {CategoriesOf(cand)} :
  \A chosen \in {Range(selectedFiles)} :
  \A rank \in {[k \in 1..Len(selectedFiles) |-> Rank(FirstMatch(selectedFiles[k]))]} :
  \A pos \in {[k \in 1..Len(selectedFiles) |-> PositionIn(fileTree, selectedFiles[k])]} :
     /\ \A a, b \in 1..Len(cand) :
          (a < b /\ cat[a] = cat[b] /\ cand[b] \in chosen) => cand[a] \in chosen
     /\ \A x, y \in 1..Len(selectedFiles) :
          x < y => (rank[x] < rank[y] \/ (rank[x] = rank[y] /\ pos[x] < pos[y]))

\* a finished run in which a category took the earlier of two candidates and
\* left the later one, and the sort moved a selected path ahead of another
C5_Witness ==
  /\ pc = "done"
  /\ LET cand == SelectSeq(fileTree, Eligible)
         cat == CategoriesOf(cand)
     IN \E a, b \in 1..Len(cand) :
          /\ a < b
          /\ cat[a] = cat[b]
          /\ cand[a] \in Range(selectedFiles)
          /\ cand[b] \notin Range(selectedFiles)
  /\ \E x, y \in 1..Len(selectedFiles) :
       /\ x < y
       /\ PositionIn(fileTree, selectedFiles[x]) > PositionIn(fileTree, selectedFiles[y])


(***************************************************************************)
(* C6: at most 5 fetches are in flight, and no fetch of a batch is issued  *)
(* while a fetch of an earlier batch of five selected paths is still in    *)
(* flight.                                                                 *)
(***************************************************************************)
C6_BatchesAwaited ==
  /\ Cardinality(pending) <= 5
  /\ pending \subseteq 1..Len(fetchLog)
  /\ \A a \in pending : \A b \in 1..Len(fetchLog) :
       /\ fetchLog[b] = selectedFiles[b]
       /\ (b - 1) \div 5 <= (a - 1) \div 5

\* the second batch is in flight after a first batch of five whose fetches
\* ended with an error, with not-found and with text
C6_Witness ==
  /\ pc = "await"
  /\ Len(fetchLog) > 5
  /\ pending # {}
  /\ \E a, b, c \in 1..5 :
       /\ host[selectedFiles[a]].kind = "throw"
       /\ host[selectedFiles[b]].kind = "nocontent"
       /\ host[selectedFiles[c]].kind = "data"

(***************************************************************************)
(* C7, as amended: the fetch loop is never stuck; every selected           *)
(* path is fetched; a path whose fetch failed, reported not-found or       *)
(* returned an empty text is absent from the output; every path whose      *)
(* fetch returned a non-empty text is in the output once, with the sample  *)
(* its own text and the line budget determine, whatever the other fetches  *)
(* did.                                                                    *)
(***************************************************************************)
OutputFor(p) == {n \in 1..Len(codeFiles) : codeFiles[n].path = p}

C7_FailuresAreLocal ==
  /\ pc = "fetch" => ENABLED IssueBatch \/ ENABLED Return
  /\ pc = "await" => ENABLED CollectBatch \/ \E k \in pending : ENABLED CompleteFetch(k)
  /\ pc = "done" =>
       /\ Range(fetchLog) = Range(selectedFiles)
       /\ \A k \in 1..Len(selectedFiles) :
            LET p == selectedFiles[k]
                answer == host[p]
            IN IF answer.kind = "data" /\ answer.content # <<>>
               THEN /\ Cardinality(OutputFor(p)) = 1
                    /\ \A n \in OutputFor(p) :
                         codeFiles[n] = FetchResult(p, Some(answer.content), maxLinesPerFile)
               ELSE OutputFor(p) = {}

\* C7 as stated: every path whose fetch returned text is in the output
C7_AsStated ==
  pc = "done" =>
    \A k \in 1..Len(selectedFiles) :
      LET p == selectedFiles[k]
          answer == host[p]
      IN IF answer.kind = "data"
         THEN /\ Cardinality(OutputFor(p)) = 1
              /\ \A n \in OutputFor(p) :
                   codeFiles[n] = FetchResult(p, Some(answer.content), maxLinesPerFile)
         ELSE OutputFor(p) = {}

\* a finished run of two batches: in the first a fetch threw, one reported
\* not-found and a later path of the same batch returned text; the path of
\* the second batch returned text too
C7_Witness ==
  /\ pc = "done"
  /\ Len(selectedFiles) > 5
  /\ \E a, b, c \in 1..5 :
       /\ a < c /\ b < c
       /\ host[selectedFiles[a]].kind = "throw"
       /\ host[selectedFiles[b]].kind = "nocontent"
       /\ host[selectedFiles[c]].kind = "data"
       /\ OutputFor(selectedFiles[c]) # {}
  /\ OutputFor(selectedFiles[6]) # {}

(***************************************************************************)
(* C8: the fetch capability is called once for each selected path, in      *)
(* selection order, and for no other path, whatever the fetches answer.    *)
(***************************************************************************)
C8_FetchedOnce ==
  /\ Len(fetchLog) <= Len(selectedFiles)
  /\ \A k \in 1..Len(fetchLog) : fetchLog[k] = selectedFiles[k]
  /\ \A a, b \in 1..Len(fetchLog) : a # b => fetchLog[a] # fetchLog[b]
  /\ pc \in {"start", "select"} => fetchLog = <<>>
  /\ pc = "done" => Len(fetchLog) = Len(selectedFiles)

\* a finished run in which a fetch yielded nothing while the tree held a
\* candidate that was not selected
C8_Witness ==
  /\ pc = "done"
  /\ \E k \in 1..Len(selectedFiles) : host[selectedFiles[k]].kind # "data"
  /\ \E p \in Range(fileTree) : Eligible(p) /\ p \notin Range(selectedFiles)

(***************************************************************************)
(* C9, as amended: a sample of a file with N > budget lines holds the      *)
(* first budget lines joined by newlines, then an empty line, then one     *)
(* marker line stating that N - budget lines were omitted (budget + 2      *)
(* lines when budget >= 1); its lineCount is N; a CodeFile has the fields  *)
(* path, language, content and lineCount and no truncated flag.            *)
(***************************************************************************)
SourceLines(f) == Split(host[f.path].content)

C10_ShortFileUntouched ==
  \A n \in 1..Len(codeFiles) :
    \A f \in {codeFiles[n]} : \A lines \in {SourceLines(f)} :
      Len(lines) <= maxLinesPerFile =>
        /\ f.content = host[f.path].content
        /\ f.lineCount = Len(lines)

\* the output holds the sample of a file of exactly budget = 2 lines
C10_Witness ==
  \E n \in 1..Len(codeFiles) :
    /\ maxLinesPerFile = 2
    /\ Len(SourceLines(codeFiles[n])) = 2
    /\ codeFiles[n].content # <<>>

(***************************************************************************)
(* C11: when the path list is empty or holds no eligible path (each path   *)
(* is excluded or lacks a source-like extension), getKeySourceFiles issues *)
(* no fetch, selects nothing, and returns the empty list: from the head of *)
(* the batch loop the only step is the return of line 488.                 *)
(***************************************************************************)
\* paths that are excluded, and paths without a source-like extension
KnownIneligible == Range(NoisePaths) \cup Range(NonSourcePaths)

C11_NoCandidatesNoFetch ==
  (\A p \in Range(fileTree) : p \in KnownIneligible) =>
    /\ fetchLog = <<>>
    /\ pending = {}
    /\ selectedFiles = <<>>
    /\ codeFiles = <<>>
    /\ pc = "start" => ENABLED Start
    /\ pc = "select" => ENABLED SelectDone
    /\ pc = "fetch" => ENABLED Return /\ ~ENABLED IssueBatch

\* the call has returned for a path list made of an excluded path and a path
\* without a source-like extension, under a file cap that would admit both
C11_Witness ==
  /\ pc = "done"
  /\ Len(fileTree) = 2
  /\ \E p \in Range(fileTree) : p \in Range(NoisePaths)
  /\ \E p \in Range(fileTree) : p \in Range(NonSourcePaths)
  /\ maxFiles >= 2
  /\ codeFiles = <<>>

(***************************************************************************)
(* C20: when every issued fetch eventually completes, getKeySourceFiles    *)
(* eventually returns, having issued one fetch for every selected path in  *)
(* ceil(n / 5) batches of the loop of line 455; a batch in flight always   *)
(* completes, whatever its fetches answer, and the loop goes on.           *)
(***************************************************************************)
BatchesRun == i \div batchSize

CeilDiv(n, d) == (n + d - 1) \div d

C20_EventuallyReturns ==
  /\ <>(/\ pc = "done"
        /\ fetchLog = selectedFiles
        /\ BatchesRun = CeilDiv(Len(selectedFiles), batchSize))
  /\ (pc = "await") ~> (pc = "fetch")

\* the call has returned after two batches, the first of which held a fetch
\* that threw and a fetch that found nothing
C20_Witness ==
  /\ pc = "done"
  /\ BatchesRun = 2
  /\ Len(selectedFiles) = 6
  /\ \E a, b \in 1..batchSize :
       /\ host[selectedFiles[a]] = Throw
       /\ host[selectedFiles[b]] = NoContent



(***************************************************************************)
(* Claims about the classifier.                                            *)
(***************************************************************************)
\* the properties analyzeCodebase has assigned so far
Has(field) == field \in DOMAIN codeAnalysis

\* list is the first cap entries of all, or all of it when it is shorter
CappedPrefix(list, all, cap) ==
  /\ Len(list) <= cap
  /\ Len(list) = Min(cap, Len(all))
  /\ IsPrefix(list, all)

\* the list getEnhancedDependencies builds before line 520 cuts it
AllAnnotations ==
  IF parsedPackageJson = Undefined THEN <<>>
  ELSE Annotations(DEPENDENCY_DESCRIPTIONS, FieldOr(parsedPackageJson, "dependencies", <<>>))

\* C12: exports hold at most 30 entries, routes 20, components 20, entry
\* points 5 and dependency annotations 20, and each of these lists is the
\* prefix, in the order found, of the list built before the cap cut it.
C12_CapsArePrefixes ==
  /\ Has("entryPoints") =>
       CappedPrefix(codeAnalysis.entryPoints, AllEntryPoints(sourceFiles, fileTree),
                    MaxEntryPoints)
  /\ Has("exports") =>
       CappedPrefix(codeAnalysis.exports, AllExports(sourceFiles), MaxExports)
  /\ Has("routes") =>
       CappedPrefix(codeAnalysis.routes, AllRoutes(sourceFiles), MaxRoutes)
  /\ Has("components") =>
       CappedPrefix(codeAnalysis.components, AllComponents(sourceFiles), MaxComponents)
  /\ apc = "annotated" =>
       CappedPrefix(enhancedDependencies, AllAnnotations, MaxAnnotations)

\* every cap has cut its list
C12_Witness ==
  /\ apc = "annotated"
  /\ Len(codeAnalysis.entryPoints) = MaxEntryPoints
  /\ Len(AllEntryPoints(sourceFiles, fileTree)) > MaxEntryPoints
  /\ Len(codeAnalysis.exports) = MaxExports
  /\ Len(AllExports(sourceFiles)) > MaxExports
  /\ Len(codeAnalysis.routes) = MaxRoutes
  /\ Len(AllRoutes(sourceFiles)) > MaxRoutes
  /\ Len(codeAnalysis.components) = MaxComponents
  /\ Len(AllComponents(sourceFiles)) > MaxComponents
  /\ Len(enhancedDependencies) = MaxAnnotations
  /\ Len(AllAnnotations) > MaxAnnotations

\* the manifest that was parsed lists the package under dependencies or
\* under devDependencies
Declares(n) ==
  /\ parsedPackageJson # Undefined
  /\ \/ \E k \in 1..Len(FieldOr(parsedPackageJson, "dependencies", <<>>)) :
          parsedPackageJson.dependencies[k].name = n
     \/ \E k \in 1..Len(FieldOr(parsedPackageJson, "devDependencies", <<>>)) :
          parsedPackageJson.devDependencies[k].name = n

MetaFrameworkLabel == "Next.js Application (React SSR/SSG Framework)"

LibraryPlusBundlerLabel == "React SPA with Vite"

\* C13: a manifest that lists next gets the meta-framework label, with or
\* without react and vite, in every order of insertion and under either of
\* dependencies and devDependencies; one that lists react and vite and not
\* next gets the library-plus-bundler label, which is another label.
C13_SpecificBeatsGeneric ==
  /\ MetaFrameworkLabel # LibraryPlusBundlerLabel
  /\ Has("architecture") =>
       /\ Declares(Pkg("next")) => codeAnalysis.architecture = MetaFrameworkLabel
       /\ Declares(Pkg("react")) /\ Declares(Pkg("vite")) /\ ~Declares(Pkg("next")) =>
            codeAnalysis.architecture = LibraryPlusBundlerLabel

\* vite and react come first, under dependencies, and next last, under
\* devDependencies
C13_Witness ==
  /\ apc = "returned"
  /\ Keys(FieldOr(parsedPackageJson, "dependencies", <<>>)) = <<Pkg("vite"), Pkg("react")>>
  /\ Keys(FieldOr(parsedPackageJson, "devDependencies", <<>>)) = <<Pkg("next")>>
  /\ codeAnalysis.architecture = MetaFrameworkLabel

ManagePy == P(<<>>, <<"manage", "py">>)

OnlyPython == [l \in {"Python"} |-> 50000]

\* C14: with no manifest, language statistics {Python: 50000} and a path
\* list that holds manage.py, the architecture is the Django label.
C14_DjangoMarker ==
  /\ Has("architecture")
  /\ packageJson = Null
  /\ languages = OnlyPython
  /\ fileTree # UndefinedList
  /\ ManagePy \in Range(fileTree)
  => codeAnalysis.architecture = "Django Application"

\* the same request with a Python manifest file next to manage.py
C14_Witness ==
  /\ Has("architecture")
  /\ packageJson = Null
  /\ languages = OnlyPython
  /\ fileTree # UndefinedList
  /\ ManagePy \in Range(fileTree)
  /\ P(<<>>, <<"requirements", "txt">>) \in Range(fileTree)
  /\ codeAnalysis.architecture = "Django Application"

\* nothing is known of the repository
NothingKnown ==
  /\ sourceFiles = <<>>
  /\ fileTree \in {<<>>, UndefinedList}
  /\ packageJson = Null
  /\ languages = Undefined

EmptyAnalysis ==
  [architecture |-> "Software Project", entryPoints |-> <<>>, exports |-> <<>>,
   routes |-> <<>>, components |-> <<>>, patterns |-> <<>>, techStack |-> <<>>]

AnalysisSteps ==
  {"parse", "architecture", "entryPoints", "exports", "routes", "components", "patterns",
   "techStack", "returned", "annotated"}

\* C15: with an empty sample, an empty or absent path list and neither
\* manifest nor language statistics, every step of analyzeCodebase yields a
\* value, the architecture is Software Project and every list is empty.
C15_EmptyEverywhere ==
  NothingKnown =>
    /\ apc \in AnalysisSteps
    /\ \A f \in DOMAIN codeAnalysis : codeAnalysis[f] = EmptyAnalysis[f]
    /\ apc \in {"returned", "annotated"} => codeAnalysis = EmptyAnalysis

\* the call without a path list has returned
C15_Witness ==
  /\ NothingKnown
  /\ fileTree = UndefinedList
  /\ apc = "returned"
  /\ codeAnalysis = EmptyAnalysis

\* no manifest was fetched, its text does not parse, or it denotes an object
\* without dependencies, devDependencies and main
ManifestUnusable ==
  \/ packageJson = Null
  \/ ~packageJson.text.valid
  \/ DOMAIN packageJson.text.value \cap {"dependencies", "devDependencies", "main"} = {}

\* C16: a manifest that fails to parse, no manifest, and a manifest object
\* without dependencies, devDependencies and main give, for the same paths,
\* language statistics and sample, the result of the call without manifest.
C16_UnusableManifestIsNoManifest ==
  ManifestUnusable =>
    /\ apc \in AnalysisSteps
    /\ \A res \in {analyzeCodebase(sourceFiles, Undefined, languages, fileTree)} :
         /\ \A f \in DOMAIN codeAnalysis : codeAnalysis[f] = res[f]
         /\ apc \in {"returned", "annotated"} => codeAnalysis = res
    /\ apc = "annotated" => enhancedDependencies = <<>>

\* a manifest object with a name only, in a repository with src/index.ts
C16_Witness ==
  /\ apc = "returned"
  /\ packageJson # Null
  /\ packageJson.text.valid
  /\ DOMAIN packageJson.text.value = {"name"}
  /\ fileTree # UndefinedList
  /\ P(<<"src">>, <<"index", "ts">>) \in Range(fileTree)
  /\ codeAnalysis.architecture = "Software Project"

\* some sampled file holds a call that detectRoutes reads as a route of a
\* router: router.verb(quoted path, in any case of the letters
HoldsRouterCall ==
  \E n \in 1..Len(sourceFiles) :
    CallRoutes(sourceFiles[n].content, RouterChunks, sourceFiles[n].path) # <<>>

HoldsHook == \E n \in 1..Len(sourceFiles) : Holds(sourceFiles[n].content, HookChunks)

NoDuplicates(list) == \A a, b \in 1..Len(list) : list[a] = list[b] => a = b

\* C18: a sample whose text holds a use of a stateful hook has the pattern
\* React Hooks; when it also holds a method call on a router it has the
\* pattern RESTful API Routes as well; no pattern is listed twice.
C18_HooksAndRouting ==
  Has("patterns") =>
    /\ HoldsHook => "React Hooks" \in Range(codeAnalysis.patterns)
    /\ HoldsHook /\ HoldsRouterCall =>
         {"React Hooks", "RESTful API Routes"} \subseteq Range(codeAnalysis.patterns)
    /\ NoDuplicates(codeAnalysis.patterns)

\* the hook in one file and router.get in the other, both patterns once
C18_Witness ==
  /\ apc = "returned"
  /\ Len(sourceFiles) = 2
  /\ sourceFiles[1].content = RouterGetLine
  /\ sourceFiles[2].content = HookLine
  /\ codeAnalysis.patterns = <<"React Hooks", "RESTful API Routes">>

\* the file is under pages/api or app/api
UnderApiDirectory(p) ==
  \E k \in 1..(Len(p.dirs) - 1) : p.dirs[k] \in {"pages", "app"} /\ p.dirs[k + 1] = "api"

OtherRouteLines == {ExportConstPostLine, RouterGetLine, RouterCapitalLine, AppPostLine}

\* the content exports a handler named GET and holds no other route
ExportsGetOnly(content) ==
  /\ ExportGetLine \in Range(Split(content))
  /\ Range(Split(content)) \cap OtherRouteLines = {}

\* the segments that follow the API directory, the extension of the file
\* name dropped
SegmentsAfterApi(p) ==
  LET K == {k \in 1..(Len(p.dirs) - 1) : p.dirs[k] \in {"pages", "app"} /\ p.dirs[k + 1] = "api"}
      last == CHOOSE k \in K : \A j \in K : j <= k
  IN SubSeq(p.dirs, last + 2, Len(p.dirs)) \o <<JoinText(SubSeq(p.file, 1, Len(p.file) - 1), ".")>>

WithoutTrailing(segs, name) ==
  IF segs # <<>> /\ Last(segs) = name THEN SubSeq(segs, 1, Len(segs) - 1) ELSE segs

\* /api and the segments, each after a /
UnderApi(segs) == JoinText(<<"/api">> \o segs, "/")

\* the entries of the routes list for the file
RoutesOf(path) ==
  LET OfFile(r) == r.file = path
  IN SelectSeq(codeAnalysis.routes, OfFile)

\* the routes list holds, for each sampled file under an API directory that
\* exports GET only, one entry, with method GET and the path made by Path
OneGetRoute(Path(_)) ==
  Has("routes") /\ Len(AllRoutes(sourceFiles)) <= MaxRoutes =>
    \A n \in 1..Len(sourceFiles) :
      UnderApiDirectory(sourceFiles[n].path) /\ ExportsGetOnly(sourceFiles[n].content) =>
        /\ Len(RoutesOf(sourceFiles[n].path)) = 1
        /\ RoutesOf(sourceFiles[n].path)[1].method = "GET"
        /\ RoutesOf(sourceFiles[n].path)[1].path = Path(sourceFiles[n].path)

PrefixAndExtensionStripped(p) == UnderApi(SegmentsAfterApi(p))

RouteAndIndexStrippedToo(p) ==
  UnderApi(WithoutTrailing(WithoutTrailing(SegmentsAfterApi(p), "route"), "index"))

\* C19 as stated: the path of the entry is the path of the file without
\* the prefix that ends at the API directory and without the extension.
C19_AsStated == OneGetRoute(PrefixAndExtensionStripped)

\* C19: a sampled file under pages/api or app/api that exports a handler
\* named GET and holds no other route has exactly one entry in the routes
\* list, with method GET and the path of the file from the API directory
\* on, without its extension and without a last segment route or index.
C19_OneGetRoute == OneGetRoute(RouteAndIndexStrippedToo)

\* the file is the second of the sample, named route.ts, after a file with
\* a route of its own
C19_Witness ==
  /\ apc = "returned"
  /\ Len(sourceFiles) = 2
  /\ sourceFiles[1].content = RouterGetLine
  /\ sourceFiles[2].path = P(<<"src", "app", "api", "users">>, <<"route", "ts">>)
  /\ sourceFiles[2].content = ExportGetLine
  /\ Len(codeAnalysis.routes) = 2
  /\ codeAnalysis.routes[2] =
       RouteInfo("GET", "/api/users", "GET", sourceFiles[2].path)

FrameworkLabel(fw) ==
  IF fw = Pkg("next") THEN "Next.js Application (React SSR/SSG Framework)"
  ELSE IF fw = Pkg("nuxt") THEN "Nuxt.js Application (Vue SSR)"
  ELSE IF fw = Scoped("sveltejs", "kit") THEN "SvelteKit Application"
  ELSE IF fw = Scoped("nestjs", "core") THEN "NestJS Application"
  ELSE "React Native Mobile Application"

\* C21: a manifest that lists a framework and the library it is built on
\* (next with react, nuxt with vue, @sveltejs/kit with svelte, @nestjs/core
\* with express, react-native with react) gets the label of the framework.
C21_FrameworkBeatsLibrary ==
  Has("architecture") =>
    \A pair \in FrameworkPairs :
      Declares(pair[1]) /\ Declares(pair[2]) =>
        codeAnalysis.architecture = FrameworkLabel(pair[1])

\* nuxt with vue, the library listed first
C21_Witness ==
  /\ apc = "returned"
  /\ Keys(FieldOr(parsedPackageJson, "dependencies", <<>>)) = <<Pkg("vue"), Pkg("nuxt")>>
  /\ codeAnalysis.architecture = "Nuxt.js Application (Vue SSR)"

CargoToml == P(<<>>, <<"Cargo", "toml">>)

\* the parsed manifest lists no package
DeclaresNothing ==
  /\ FieldOr(parsedPackageJson, "dependencies", <<>>) = <<>>
  /\ FieldOr(parsedPackageJson, "devDependencies", <<>>) = <<>>

\* C22: when the manifest lists no package and the only path of the tree is
\* Cargo.toml, the label is Rust Application, whatever the byte counts of
\* the language statistics are.
C22_MarkerBeforeLanguages ==
  /\ Has("architecture")
  /\ DeclaresNothing
  /\ fileTree = <<CargoToml>>
  => codeAnalysis.architecture = "Rust Application"

\* Cargo.toml in a repository whose statistics hold Python only
C22_Witness ==
  /\ apc = "returned"
  /\ DeclaresNothing
  /\ fileTree = <<CargoToml>>
  /\ languages = OnlyPython
  /\ codeAnalysis.architecture = "Rust Application"

RecognizedLanguages == {"Python", "Go", "Rust", "TypeScript", "JavaScript"}

\* the label that names the language
LanguageLabels(l) ==
  IF l = "Python"
  THEN {"Python Application", "Django Application", "Flask Application", "FastAPI Application"}
  ELSE IF l = "Go" THEN {"Go Application"}
  ELSE IF l = "Rust" THEN {"Rust Application"}
  ELSE IF l = "TypeScript" THEN {"TypeScript Project"}
  ELSE {"JavaScript Project"}

\* the byte count of the language statistics, 0 without one
BytesOf(l) == IF languages # Undefined /\ l \in DOMAIN languages THEN languages[l] ELSE 0

\* neither a dependency nor a path of the tree can decide the label
OnlyLanguagesKnown ==
  /\ DeclaresNothing
  /\ fileTree \in {<<>>, UndefinedList}

\* C23: when neither the manifest nor the tree decides, a language with
\* fewer bytes than another recognized language does not give the label.
C23_DominantLanguageDecides ==
  Has("architecture") /\ OnlyLanguagesKnown =>
    \A l, m \in RecognizedLanguages :
      BytesOf(l) < BytesOf(m) => codeAnalysis.architecture \notin LanguageLabels(l)

\* more TypeScript than Python, and the label names TypeScript
C23_Witness ==
  /\ apc = "returned"
  /\ OnlyLanguagesKnown
  /\ BytesOf("Python") > 0
  /\ BytesOf("Python") < BytesOf("TypeScript")
  /\ codeAnalysis.architecture = "TypeScript Project"

\* C24: when neither the manifest nor the tree decides, the label names a
\* language whenever a recognized language has a positive byte count, and
\* it is Software Project only when none has.
C24_FallbackNamesLanguage ==
  Has("architecture") /\ OnlyLanguagesKnown =>
    /\ (\E l \in RecognizedLanguages : BytesOf(l) > 0) =>
         \E l \in RecognizedLanguages : codeAnalysis.architecture \in LanguageLabels(l)
    /\ codeAnalysis.architecture = "Software Project" =>
         \A l \in RecognizedLanguages : BytesOf(l) = 0

\* one byte of TypeScript is named
C24_Witness ==
  /\ apc = "returned"
  /\ OnlyLanguagesKnown
  /\ BytesOf("TypeScript") = 1
  /\ \A l \in RecognizedLanguages \ {"TypeScript"} : BytesOf(l) = 0
  /\ codeAnalysis.architecture = "TypeScript Project"

\* the paths of the sample that are entry points, by the patterns of the
\* specification: index, main, app or server with a script extension or
\* App with a UI extension, at the top or under src; pages/_app and
\* app/layout with a UI extension
IsEntryPath(p) ==
  \/ /\ p.dirs \in {<<>>, <<"src">>}
     /\ Len(p.file) = 2
     /\ \/ p.file[1] \in {"index", "main", "app", "server"} /\ p.file[2] \in {"ts", "js", "tsx", "jsx"}
        \/ p.file[1] = "App" /\ p.file[2] \in {"tsx", "jsx"}
  \/ p \in {P(<<"pages">>, <<"_app", ext>>) : ext \in {"tsx", "jsx"}}
  \/ p \in {P(<<"app">>, <<"layout", ext>>) : ext \in {"tsx", "jsx"}}

SampledEntryPaths == {sourceFiles[n].path : n \in {k \in 1..Len(sourceFiles) : IsEntryPath(sourceFiles[k].path)}}

TreeEntryPaths ==
  IF fileTree = UndefinedList THEN {}
  ELSE {fileTree[n] : n \in {k \in 1..Len(fileTree) : IsEntryPath(fileTree[k])}}

CapitalizedCamelCase == {"Home", "UserService"}

\* the entries of the exports list for the file
ExportsOf(path) ==
  LET OfFile(e) == e.file = path
  IN SelectSeq(codeAnalysis.exports, OfFile)

\* C26: a source line gives at most one entry of exports, and the entry of
\* a default-exported function or class has the type component exactly when
\* the name is in capitalized camel case, and the plain type function or
\* class otherwise.
C26_DefaultExportKinds ==
  Has("exports") /\ Len(AllExports(sourceFiles)) <= MaxExports =>
    \A n \in 1..Len(sourceFiles) :
      /\ Len(ExportsOf(sourceFiles[n].path)) <= Len(Split(sourceFiles[n].content))
      /\ \A kw \in {"function", "class"}, name \in DefaultExportNames :
           Last(Split(sourceFiles[n].content)) = DefaultExportLine(kw, name) =>
             /\ ExportsOf(sourceFiles[n].path) # <<>>
             /\ Last(ExportsOf(sourceFiles[n].path)).name = name
             /\ Last(ExportsOf(sourceFiles[n].path)).type =
                  (IF name \in CapitalizedCamelCase THEN "component" ELSE kw)

\* export default function Home after an exported constant: two lines, two
\* entries, the second a component
C26_Witness ==
  /\ apc = "returned"
  /\ Len(sourceFiles) = 1
  /\ Split(sourceFiles[1].content) = <<ExportConstPostLine, DefaultExportLine("function", "Home")>>
  /\ Len(codeAnalysis.exports) = 2
  /\ codeAnalysis.exports[2] = ExportInfo("Home", "component", sourceFiles[1].path)

\* the entries of the routes list that the file has by its place in the
\* tree: those that no call of a router or of app gave
ImplicitRoutesOf(path) ==
  LET Implicit(r) == r.file = path /\ r.handler # "handler"
  IN SelectSeq(codeAnalysis.routes, Implicit)

\* the HTTP verbs the content exports a function or constant for
ExportedVerbs(content) ==
  {m \in {"GET", "POST"} :
     (IF m = "GET" THEN ExportGetLine ELSE ExportConstPostLine) \in Range(Split(content))}

HasDefaultExport(content) ==
  Range(Split(content)) \cap {ExportDefaultLine, ExportDefaultFunctionLine} # {}

\* C27: a sampled file under pages/api or app/api has one implicit route
\* for each HTTP verb it exports, all with one path, and the single route
\* ALL only when it has a default export and exports no verb, never both;
\* a sampled file outside these directories has no implicit route.
C27_ImplicitRoutes ==
  Has("routes") /\ Len(AllRoutes(sourceFiles)) <= MaxRoutes =>
    \A n \in 1..Len(sourceFiles) :
      \A found \in {ImplicitRoutesOf(sourceFiles[n].path)} :
        \A verbs \in {ExportedVerbs(sourceFiles[n].content)} :
          IF UnderApiDirectory(sourceFiles[n].path)
          THEN /\ \A a, b \in 1..Len(found) : found[a].path = found[b].path
               /\ verbs # {} =>
                    /\ {found[a].method : a \in 1..Len(found)} = verbs
                    /\ Len(found) = Cardinality(verbs)
               /\ verbs = {} /\ HasDefaultExport(sourceFiles[n].content) =>
                    Len(found) = 1 /\ found[1].method = "ALL"
               /\ verbs = {} /\ ~HasDefaultExport(sourceFiles[n].content) => found = <<>>
          ELSE found = <<>>

\* a file under pages/api that exports GET and POST: two routes, one path
C27_Witness ==
  /\ apc = "returned"
  /\ Len(sourceFiles) = 1
  /\ sourceFiles[1].path = P(<<"pages", "api">>, <<"users", "ts">>)
  /\ Split(sourceFiles[1].content) = <<ExportConstPostLine, ExportGetLine>>
  /\ codeAnalysis.routes =
       <<RouteInfo("GET", "/api/users", "GET", sourceFiles[1].path),
         RouteInfo("POST", "/api/users", "POST", sourceFiles[1].path)>>

\* the kind the path of a file gives its components: layout when a
\* directory or the file name holds layout, page when the file is under a
\* directory pages or app, functional otherwise
KindOfPath(p) ==
  IF \E k \in 1..Len(p.dirs) : p.dirs[k] \in {"layout", "layouts", "(layout)"}
  THEN "layout"
  ELSE IF p.file[1] \in {"layout", "layouts"} THEN "layout"
  ELSE IF \E k \in 1..Len(p.dirs) : p.dirs[k] \in {"pages", "app"} THEN "page"
  ELSE "functional"

\* C28: every component comes from a .tsx or .jsx file, its kind is the
\* one the path of the file gives, for function declarations and for arrow
\* functions alike, and a name declared in both forms in one file has one
\* entry.
C28_ComponentKinds ==
  Has("components") =>
    /\ \A a \in 1..Len(codeAnalysis.components) :
         /\ Last(codeAnalysis.components[a].file.file) \in {"tsx", "jsx"}
         /\ codeAnalysis.components[a].type = KindOfPath(codeAnalysis.components[a].file)
    /\ \A n \in 1..Len(sourceFiles) :
         /\ Last(sourceFiles[n].path.file) \in {"tsx", "jsx"}
         /\ Split(sourceFiles[n].content) \in
              {<<FunctionButtonLine, ArrowComponentLine>>, <<ArrowComponentLine, FunctionButtonLine>>}
         => Cardinality({a \in 1..Len(codeAnalysis.components) :
                           /\ codeAnalysis.components[a].name = "Button"
                           /\ codeAnalysis.components[a].file = sourceFiles[n].path}) = 1

\* Button is declared as a function and as an arrow function in a file
\* under src/pages: one entry, a page
C28_Witness ==
  /\ apc = "returned"
  /\ Len(sourceFiles) = 1
  /\ sourceFiles[1].path = P(<<"src", "pages">>, <<"Home", "tsx">>)
  /\ Split(sourceFiles[1].content) = <<FunctionButtonLine, ArrowComponentLine>>
  /\ codeAnalysis.components = <<ComponentInfo("Button", sourceFiles[1].path, "page")>>

(***************************************************************************)
(* C29: the greedy walk equals a closed-form selection.  Once the walk is  *)
(* over, the selected list is the first maxFiles elements of the           *)
(* concatenation, in the order entry, config, types, routes, services,     *)
(* components, other, of the first cap(c) eligible paths of each category  *)
(* c in input order; while the walk runs the selected list is a prefix of  *)
(* it.  Consequently no path of a lower-priority category is selected      *)
(* while an eligible path of a higher-priority category whose cap is not   *)
(* reached is left out.                                                    *)
(***************************************************************************)
PriorityOrder == Append(RuleOrder, "other")

\* the first cap(c) paths of category c among the candidates cand, whose
\* categories are cats, in input order
FirstOfCategory(cand, cats, c) ==
  LET InCategory(k) == cats[k] = c
      at == SelectSeq([k \in 1..Len(cand) |-> k], InCategory)
  IN Slice([n \in 1..Len(at) |-> cand[at[n]]], 0, ClaimedCaps[c])

ClosedFormSelection(cand, cats, max) ==
  Slice(Flatten([k \in 1..Len(PriorityOrder) |-> FirstOfCategory(cand, cats, PriorityOrder[k])]),
        0, max)

\* the candidates with room: eligible, left out, their category below its cap
LeftOutWithRoom(cand, cats, selCats) ==
  {k \in 1..Len(cand) :
     cand[k] \notin Range(selectedFiles) /\ CountIn(selCats, cats[k]) < ClaimedCaps[cats[k]]}

C29_GreedyIsClosedForm ==
  /\ pc = "start" => selectedFiles = <<>>
  /\ pc \in {"select", "fetch", "done"} =>
       \A cand \in {SelectSeq(fileTree, Eligible)} :
         \A cats \in {CategoriesOf(cand)} :
           \A closed \in {ClosedFormSelection(cand, cats, maxFiles)} :
             /\ IsPrefix(selectedFiles, closed)
             /\ pc # "select" =>
                  /\ selectedFiles = closed
                  /\ \A selCats \in {CategoriesOf(selectedFiles)} :
                       \A k \in LeftOutWithRoom(cand, cats, selCats) :
                         \A n \in 1..Len(selCats) : Rank(selCats[n]) <= Rank(cats[k])

\* the run is over: a category cap turned a candidate away, and the file cap
\* cut the list before a candidate of a category with room that the tree
\* lists ahead of a selected path
C29_Witness ==
  /\ pc = "done"
  /\ Len(selectedFiles) = maxFiles
  /\ \E c \in Categories :
       /\ CountIn(Candidates, c) > ClaimedCaps[c]
       /\ CountIn(CategoriesOf(selectedFiles), c) = ClaimedCaps[c]
  /\ \E p \in Range(fileTree) \ Range(selectedFiles) :
       /\ Eligible(p)
       /\ CountIn(CategoriesOf(selectedFiles), FirstMatch(p)) < ClaimedCaps[FirstMatch(p)]
       /\ \E k \in 1..Len(selectedFiles) :
            PositionIn(fileTree, p) < PositionIn(fileTree, selectedFiles[k])

(***************************************************************************)
(* C30: for every interleaving of the completions of the fetches of a      *)
(* batch, the returned list is the selected list restricted to the paths   *)
(* whose fetch returned text: after each batch the output holds, in        *)
(* selection order and once each, the fetched paths of the batches         *)
(* collected so far, and the completions of a batch in flight leave it     *)
(* alone.                                                                  *)
(***************************************************************************)
FetchedWithText(p) == host[p].kind = "data" /\ host[p].content # <<>>

\* positions a and b of one batch: b has completed with text, a is in flight
OutOfOrder(a, b) ==
  /\ a < b
  /\ (a - 1) \div batchSize = (b - 1) \div batchSize
  /\ a \in pending
  /\ b \in DOMAIN results \ pending
  /\ results[b] # Null

C30_OrderIsSelectionOrder ==
  /\ PathsOf(codeFiles) =
       SelectSeq(Slice(selectedFiles, 0, IF pc \in {"start", "select"} THEN 0 ELSE i),
                 FetchedWithText)
  /\ pc = "done" => PathsOf(codeFiles) = SelectSeq(selectedFiles, FetchedWithText)

\* a later fetch of the second batch has completed with text before an
\* earlier one, and the first batch was collected with a failed fetch in it
C30_Witness ==
  /\ pc = "await"
  /\ i = batchSize
  /\ \E a, b \in BatchPositions(i, selectedFiles) : OutOfOrder(a, b)
  /\ \E k \in 1..batchSize : ~FetchedWithText(selectedFiles[k])
  /\ Len(codeFiles) >= 2
====
